----------------------------- MODULE Inventory -------------------------------
(***************************************************************************)
(* The inventory of models (core/model_inventory.py, backend/routes/       *)
(* inventory.py).  A patch reads the record in one transaction, changes it *)
(* in memory and writes every column back in another; a deletion looks     *)
(* first, too.                                                             *)
(*                                                                         *)
(* Kept of a record: its frameworks, its dates and its status.  history    *)
(* fields of it: whether next_validation_due was given by a client, and    *)
(* the frameworks it was derived from otherwise.                           *)
(***************************************************************************)
EXTENDS Server, FiniteSetsExt

CONSTANTS
  ModelId,        \* models that may be registered
  Framework,      \* regulatory frameworks
  Portfolio,      \* the sets of frameworks that models are given
  CycleOf,        \* validation_cycle_days of each, in units of the clock
  DefaultCycle,   \* _DEFAULT_CYCLE_DAYS
  Validated       \* the days on which models are validated

ASSUME InventoryAssumption ==
  /\ IsFiniteSet(ModelId)
  /\ IsFiniteSet(Framework)
  /\ Portfolio \subseteq SUBSET Framework
  /\ CycleOf \in [Framework -> Nat \ {0}]
  /\ DefaultCycle \in Nat \ {0}
  /\ Validated \subseteq Nat \ {0}

VARIABLES
  inventory,     \* rows of model_inventory
  inventoryReq   \* the threads

inventoryVars == <<inventory, inventoryReq>>

-----------------------------------------------------------------------------

Never == 0   \* None, of a date

Absent == [status |-> "absent"]   \* no row

\* compute_next_validation_due: the shortest cycle of the frameworks.
NextDue(last, frameworks) ==
  IF last = Never THEN Never
  ELSE last + (IF frameworks = {} THEN DefaultCycle
               ELSE Min({CycleOf[f] : f \in frameworks}))

Dates == Validated \union {Never}

DueDates ==
  Dates \union {NextDue(v, fs) : v \in Validated, fs \in Portfolio}

Record ==
  [frameworks: Portfolio, validated: Dates, due: DueDates,
   status: {"ACTIVE", "RETIRED"}, given: BOOLEAN, basis: Portfolio]

InventoryReqRec ==
  {Idle} \union [pc: {"insert", "write"}, id: ModelId, record: Record]
         \union [pc: {"delete"}, id: ModelId, existed: BOOLEAN]

InventoryTypeOK ==
  /\ inventory \in [ModelId -> Record \union {Absent}]
  /\ inventoryReq \in [Thread -> InventoryReqRec]

InventoryInit ==
  /\ inventory = [m \in ModelId |-> Absent]
  /\ inventoryReq = [t \in Thread |-> Idle]

InventoryRespond(t) == inventoryReq' = [inventoryReq EXCEPT ![t] = Idle]

-----------------------------------------------------------------------------

\* add_model derives the due date of a model that comes validated and without one.
RequestAdd(t, m, fs, v, d) ==
  /\ inventoryReq[t] = Idle
  /\ inventoryReq' = [inventoryReq EXCEPT ![t] =
       [pc |-> "insert", id |-> m,
        record |-> [frameworks |-> fs, validated |-> v,
                    due |-> IF d = Never THEN NextDue(v, fs) ELSE d,
                    status |-> "ACTIVE", given |-> d # Never, basis |-> fs]]]
  /\ UNCHANGED inventory

\* The primary key refuses a second row: 409.
InsertModel(t) ==
  LET q == inventoryReq[t] IN
  /\ At(inventoryReq, t, "insert")
  /\ inventory' = IF inventory[q.id] = Absent
                  THEN [inventory EXCEPT ![q.id] = q.record] ELSE inventory
  /\ InventoryRespond(t)

\* The fields of a request body, each of which may be missing.  A date may be
\* given as null.
Patch ==
  [frameworks: {{}} \union {{fs} : fs \in Portfolio},
   validated: {{}} \union {{v} : v \in Dates},
   due: {{}} \union {{d} : d \in Dates},
   status: {{}, {"ACTIVE"}, {"RETIRED"}}]

\* The bodies that clients send: one field, or a validation with its due date.
Body ==
  {p \in Patch : \/ Cardinality({f \in DOMAIN p : p[f] # {}}) = 1
                 \/ p.status = {} /\ p.frameworks = {} /\ p.validated # {}}

Given(field, old) == IF field = {} THEN old ELSE CHOOSE x \in field : TRUE

\* The record after setattr for each field of the body; the due date is derived
\* again when the validation is given and the due date is not.
Patched(r, p) ==
  LET fs == Given(p.frameworks, r.frameworks)
      v == Given(p.validated, r.validated)
      derive == p.validated # {} /\ p.due = {}
  IN [frameworks |-> fs, validated |-> v,
      due |-> IF derive THEN NextDue(v, fs) ELSE Given(p.due, r.due),
      status |-> Given(p.status, r.status),
      given |-> IF derive THEN FALSE ELSE r.given \/ p.due # {},
      basis |-> IF derive THEN fs ELSE r.basis]

\* update_model reads the record in one transaction ...
RequestUpdate(t, m, p) ==
  /\ inventoryReq[t] = Idle
  /\ inventory[m] # Absent   \* 404
  /\ inventoryReq' = [inventoryReq EXCEPT ![t] =
       [pc |-> "write", id |-> m, record |-> Patched(inventory[m], p)]]
  /\ UNCHANGED inventory

\* Faulty: the columns that did not change are left as they are by now.
WriteChanged(t) ==
  LET q == inventoryReq[t] IN
  /\ At(inventoryReq, t, "write")
  /\ inventory' = IF inventory[q.id] = Absent THEN inventory
                  ELSE [inventory EXCEPT ![q.id].due = q.record.due,
                                         ![q.id].given = q.record.given,
                                         ![q.id].basis = q.record.basis]
  /\ InventoryRespond(t)

\* ... and writes all of it in another; a row that is gone by now stays so, and
\* the answer is 200 nevertheless.
WriteModel(t) ==
  LET q == inventoryReq[t] IN
  /\ At(inventoryReq, t, "write")
  /\ inventory' = IF inventory[q.id] = Absent THEN inventory
                  ELSE [inventory EXCEPT ![q.id] = q.record]
  /\ InventoryRespond(t)

RequestDelete(t, m) ==
  /\ inventoryReq[t] = Idle
  /\ inventoryReq' = [inventoryReq EXCEPT ![t] =
       [pc |-> "delete", id |-> m, existed |-> inventory[m] # Absent]]
  /\ UNCHANGED inventory

DeleteModel(t) ==
  /\ At(inventoryReq, t, "delete")
  /\ inventory' = [inventory EXCEPT ![inventoryReq[t].id] = Absent]
  /\ InventoryRespond(t)

\* A field of the record that is null and may not be raises before the write, a
\* statement raises, or the process dies.
AbandonInventory(t) ==
  /\ inventoryReq[t] # Idle
  /\ InventoryRespond(t)
  /\ UNCHANGED inventory

InventoryNext ==
  \/ \E t \in Thread, m \in ModelId :
       \/ \E fs \in Portfolio, v \in Dates, d \in Dates : RequestAdd(t, m, fs, v, d)
       \/ \E p \in Body : RequestUpdate(t, m, p)
       \/ RequestDelete(t, m)
  \/ \E t \in Thread :
       InsertModel(t) \/ WriteModel(t) \/ DeleteModel(t) \/ AbandonInventory(t)

InventorySpec == InventoryInit /\ [][InventoryNext]_inventoryVars

-----------------------------------------------------------------------------

\* get_due_for_revalidation, on a day and so many days ahead.
DueForRevalidation(day, ahead) ==
  {m \in ModelId :
     /\ inventory[m] # Absent
     /\ inventory[m].status = "ACTIVE"
     /\ inventory[m].due = Never \/ inventory[m].due <= day + ahead}

\* Unless a client has set the date itself, an active model is on the list as soon
\* as the shortest cycle since its last validation is over, or if it was never
\* validated -- by the frameworks it had when it was validated.  Overlapping
\* patches may lose one another, but do not mix the date of one with the due date
\* of another.
OverdueIsListed ==
  \A m \in ModelId, day \in Validated : inventory[m] # Absent =>
    LET r == inventory[m]
        due == NextDue(r.validated, r.basis)
    IN r.status = "ACTIVE" /\ ~r.given =>
         ((m \in DueForRevalidation(day, 1)) <=> (due = Never \/ due <= day + 1))
=============================================================================
