----------------------------- MODULE MCServices ------------------------------
(***************************************************************************)
(* The parts of the system that keep state of their own and share none     *)
(* with each other.  A behaviour is one of one part; the variables of the  *)
(* others stay as they are.                                                *)
(***************************************************************************)
EXTENDS ApiKeys, RateLimit, Providers, Reviews, Inventory, Migrations, SdkBatch,
        SdkAgent, Demos, Performance, Consents, Tenancy

VARIABLE part

Part == {"keys", "rate", "providers", "reviews", "inventory", "migrations", "batch",
         "agent", "demos", "performance", "consents", "tenancy"}

\* The frameworks differ in how often they ask for a validation.
MCCycleOf == [f \in Framework |-> IF f = 1 THEN 1 ELSE 2]
MCPortfolio == {{2}, {1, 2}}

MCStatements == <<2, 2>>
MCIsColumn == {<<1, 1>>, <<1, 2>>, <<2, 1>>}
MCBaseItems == {<<1, 1>>}

Init ==
  /\ part \in Part
  /\ KeysInit /\ RateInit /\ ProvidersInit /\ ReviewsInit /\ InventoryInit
  /\ MigrationsInit /\ BatchInit /\ AgentInit /\ DemosInit /\ PerformanceInit
  /\ ConsentsInit /\ TenancyInit
  /\ backend = "postgresql" => part \in {"providers", "performance"}
  /\ dialect = "postgresql" => part = "migrations"
  /\ batch.mode = "parallel" => part = "batch"
  /\ feature => part = "agent"
  /\ demo = "agent" => part = "demos"

\* The variables of the parts that do not move; two pairs of parts share one.
Still ==
  /\ IF part = "keys" THEN TRUE ELSE UNCHANGED keyVars
  /\ IF part = "rate" THEN TRUE ELSE UNCHANGED rateVars
  /\ IF part = "reviews" THEN TRUE ELSE UNCHANGED reviewVars
  /\ IF part = "inventory" THEN TRUE ELSE UNCHANGED inventoryVars
  /\ IF part = "migrations" THEN TRUE ELSE UNCHANGED migrationVars
  /\ IF part = "demos" THEN TRUE ELSE UNCHANGED demoVars
  /\ IF part = "consents" THEN TRUE ELSE UNCHANGED consentVars
  /\ IF part = "tenancy" THEN TRUE ELSE UNCHANGED tenancyVars
  /\ IF part = "batch" THEN TRUE ELSE UNCHANGED <<batch, caseOf, evalRuns, runsOf>>
  /\ IF part = "agent" THEN TRUE
     ELSE UNCHANGED <<feature, agent, agentRun, stored, late, compares>>
  /\ IF part \in {"batch", "agent"} THEN TRUE ELSE UNCHANGED faults
  /\ IF part = "providers" THEN TRUE
     ELSE UNCHANGED <<providers, default, legacy, providerReq, overlapped>>
  /\ IF part = "performance" THEN TRUE
     ELSE UNCHANGED <<performance, lastChoice, recordReq>>
  /\ IF part \in {"providers", "performance"} THEN TRUE ELSE UNCHANGED backend
  /\ UNCHANGED part

Next ==
  \/ part = "keys" /\ KeysNext /\ Still
  \/ part = "rate" /\ RateNext /\ Still
  \/ part = "providers" /\ ProvidersNext /\ Still
  \/ part = "reviews" /\ ReviewsNext /\ Still
  \/ part = "inventory" /\ InventoryNext /\ Still
  \/ part = "migrations" /\ MigrationsNext /\ Still
  \/ part = "batch" /\ BatchNext /\ Still
  \/ part = "agent" /\ AgentNext /\ Still
  \/ part = "demos" /\ DemosNext /\ Still
  \/ part = "performance" /\ PerformanceNext /\ Still
  \/ part = "consents" /\ ConsentsNext /\ Still
  \/ part = "tenancy" /\ TenancyNext /\ Still

\* Every variable of the part that moves has its type.
ServicesTypeOK ==
  CASE part = "keys" -> KeysTypeOK
    [] part = "rate" -> RateTypeOK
    [] part = "providers" -> ProvidersTypeOK
    [] part = "reviews" -> ReviewsTypeOK
    [] part = "inventory" -> InventoryTypeOK
    [] part = "migrations" -> MigrationsTypeOK
    [] part = "batch" -> BatchTypeOK
    [] part = "agent" -> AgentTypeOK
    [] part = "demos" -> DemosTypeOK
    [] part = "performance" -> PerformanceTypeOK
    [] part = "consents" -> ConsentsTypeOK
    [] part = "tenancy" -> TenancyTypeOK
=============================================================================
