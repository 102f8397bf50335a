------------------------------ MODULE Commands ------------------------------
(***************************************************************************)
(* The commands that share nothing but the client with the collector, and  *)
(* nothing with one another: a behaviour is of one of them, its scenario.  *)
(***************************************************************************)
EXTENDS Recon, Catalog, Migrations, Probes, Intake, Sources, Validation

CONSTANT Scenarios   \* the commands that are run

VARIABLE scenario

others == <<intakeVars, sourceVars, validationVars>>
vars == <<reconVars, catalogVars, migrationVars, probeVars, others, scenario>>

Init ==
  /\ scenario \in Scenarios
  /\ CatalogInit /\ MigrationsInit /\ IntakeInit /\ SourcesInit /\ ValidationInit
  /\ ReconInit /\ ProbesInit
  /\ scenario # "recon" => coded /\ world = CHOOSE w \in Worlds : TRUE
  /\ scenario # "probes" => command = "benchmark" /\ server = CHOOSE s \in Servers : TRUE
  /\ scenario # "intake" => served = CHOOSE p \in PullSets : TRUE

Next ==
  /\ UNCHANGED scenario
  /\ \/ /\ scenario = "recon" /\ ReconNext
        /\ UNCHANGED <<catalogVars, migrationVars, probeVars, others>>
     \/ /\ scenario = "catalog" /\ CatalogNext
        /\ UNCHANGED <<reconVars, migrationVars, probeVars, others>>
     \/ /\ scenario = "migrations" /\ MigrationsNext
        /\ UNCHANGED <<reconVars, catalogVars, probeVars, others>>
     \/ /\ scenario = "probes" /\ ProbesNext
        /\ UNCHANGED <<reconVars, catalogVars, migrationVars, others>>
     \/ /\ UNCHANGED <<reconVars, catalogVars, migrationVars, probeVars>>
        /\ \/ /\ scenario = "intake" /\ IntakeNext
              /\ UNCHANGED <<sourceVars, validationVars>>
           \/ /\ scenario = "sources" /\ SourcesNext
              /\ UNCHANGED <<intakeVars, validationVars>>
           \/ /\ scenario = "validation" /\ ValidationNext
              /\ UNCHANGED <<intakeVars, sourceVars>>

Spec == Init /\ [][Next]_vars

TypesOK ==
  /\ scenario \in Scenarios
  /\ ReconTypeOK /\ CatalogTypeOK /\ MigrationsTypeOK /\ ProbesTypeOK
  /\ IntakeTypeOK /\ SourcesTypeOK /\ ValidationTypeOK
=============================================================================
