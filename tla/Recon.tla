-------------------------------- MODULE Recon --------------------------------
(***************************************************************************)
(* The recon command (recon.py): the steps of Recon.run, in their order,   *)
(* against a server whose schema, permissions and data are a world, and    *)
(* which may fail to answer any call.  What is under test is the report:   *)
(* the findings written at the end, of which later work is to believe      *)
(* every absence as well as every presence.                                *)
(*                                                                         *)
(* An exception is caught by the step, and recorded, or escapes Recon.run: *)
(* introspection of a type is guarded nowhere.                             *)
(***************************************************************************)
EXTENDS Schema, Zones, Naturals

CONSTANTS
  Worlds,       \* the servers: schema, gated leaves, event types, zones and dungeon
                \* names, and one report
  CoreTypes,    \* CORE_TYPES
  Wanted,       \* type -> the fields queries want of it (querybuild.py)
  EventTypes,   \* WANTED_EVENT_DATA_TYPES
  Categories,   \* those of them that are sampled
  Profiles,     \* profile of config/sampling.yml -> its event types
  Critical,     \* the keys every event is expected to have
  NoReport,     \* nothing is written yet
  MaxFaults     \* bound: calls that fail for a reason of their own

\* Each type the run selects from has its wanted fields; the event types that
\* are sampled are finitely many, and none is the empty name.  A fight's id, where there is one, is a number.  Two names
\* that lie within one another are one name.
ASSUME ReconAssumption ==
  /\ {"Report", "ReportFight", "ReportDungeonPull", "ReportDungeonPullNPC"} \subseteq DOMAIN Wanted
  /\ "id" \in Wanted["ReportFight"]
  /\ "" \notin Categories /\ IsFiniteSet(Categories)
  /\ MaxFaults \in Nat
  /\ \A w \in Worlds :
       /\ IsFiniteSet(w.gated)
       /\ Has(w.schema, "ReportFight", "id") =>
            w.schema["ReportFight"]["id"].kind \notin CompositeKinds
  /\ \A w \in Within : w[1] # w[2] /\ <<w[2], w[1]>> \notin Within

MaxAttempts == 3
DiscoveryTypes ==
  {"ReportData", "Character", "Guild", "GuildData", "WorldData", "Zone", "Encounter"}

VARIABLES
  world,      \* the server
  coded,      \* whether --report was given
  pc,         \* the step to come; "done" or "escaped" at the end
  findings,   \* ReconFindings
  known,      \* the types introspected
  retry,      \* _execute_with_leaf_retry: the attempt, the leaves excluded
  asked,      \* type -> the selection the server answered
  fight,      \* whether a fight is available
  faults,     \* calls that may still fail
  failed,     \* <<step, part>> of each call that did
  written     \* recon_findings.json

reconVars == <<world, coded, pc, findings, known, retry, asked, fight, faults,
               failed, written>>

Schema == world.schema
Report == world.report

ReconInit ==
  /\ world \in Worlds
  /\ coded \in BOOLEAN
  /\ pc = "auth"
  /\ findings = [steps |-> <<>>, parts |-> <<>>, limits |-> {}, fixtures |-> {}]
  /\ known = {}
  /\ retry = [attempt |-> 1, excluded |-> {}]
  /\ asked = <<>>
  /\ fight = FALSE
  /\ faults = MaxFaults
  /\ failed = {}
  /\ written = NoReport

-----------------------------------------------------------------------------
\* ReconFindings: a step's status, the status of a part of it, a limitation
\* <<kind, subject, detail>>, a fixture.
With(f, key, value) == [k \in DOMAIN f \cup {key} |-> IF k = key THEN value ELSE f[k]]

Record(f, step, status) == [f EXCEPT !.steps = With(@, step, status)]
RecordParts(f, step, statuses) ==
  [f EXCEPT !.parts = [k \in DOMAIN @ \cup {<<step, l>> : l \in DOMAIN statuses} |->
                         IF k[1] = step THEN statuses[k[2]] ELSE @[k]]]
Limitation(f, texts) == [f EXCEPT !.limits = @ \cup texts]
SaveFixture(f, step) == [f EXCEPT !.fixtures = @ \cup {step}]

\* A text that is only there under a condition.
If(condition, text) == IF condition THEN {text} ELSE {}

Continue(f, next) == findings' = f /\ pc' = next /\ UNCHANGED written

Finish(f) ==
  /\ findings' = Record(f, "api_usage", "OK")
  /\ written' = findings'
  /\ pc' = "done"

\* A call of the step fails, or none does.
Fails(step) ==
  /\ faults > 0
  /\ faults' = faults - 1
  /\ failed' = failed \cup {<<step, "">>}
Answers == UNCHANGED <<faults, failed>>

Learn(types) == known' = known \cup types

\* Introspection fails outside any try: the run ends without a report.
Escapes(step, types) ==
  /\ pc = step
  /\ ~types \subseteq known
  /\ Fails(step)
  /\ pc' = "escaped"
  /\ UNCHANGED <<world, coded, findings, known, retry, asked, fight, written>>

\* _selection: the fields to ask for, and the limitation each skipped
\* composite is worth.
Selection(t, excluded) ==
  BuildSelection(Schema, t, PresentFields(Schema, t, Wanted[t]), excluded)
SkippedIn(selection) == {<<"no leaves", selection.type, f>> : f \in selection.skipped}
SelectionTypes(t) == {t} \cup LeafTypes(Schema, t, Wanted[t])
Rejected(selection) == GatedIn(Schema, world.gated, selection) # {}

\* A step that renders a selection and calls once.  A rejected selection is
\* a failed call that is no fault.
CallWith(step, selections) ==
  \/ /\ \E s \in selections : Rejected(s)
     /\ failed' = failed \cup {<<step, "">>}
     /\ UNCHANGED faults
  \/ Fails(step)

-----------------------------------------------------------------------------
StepAuth ==
  /\ pc = "auth"
  /\ \/ /\ Fails("auth")
        /\ Finish(Limitation(Record(findings, "auth", "FAILED"),
                             {<<"no evidence", "auth", "">>}))
     \/ /\ Answers
        /\ Continue(Record(findings, "auth", "OK"), "rate_limit")
  /\ UNCHANGED <<world, coded, known, retry, asked, fight>>

StepRateLimit ==
  /\ pc = "rate_limit"
  /\ \/ /\ Fails("rate_limit")
        /\ Continue(Limitation(Record(findings, "rate_limit", "FAILED"),
                               {<<"blind", "rate_limit", "">>}), "schema_types")
     \/ /\ Answers
        /\ \E recognised \in BOOLEAN :
             Continue(Limitation(
               Record(findings, "rate_limit", IF recognised THEN "OK" ELSE "SHAPE_UNKNOWN"),
               If(~recognised, <<"shape", "rate_limit", "">>)), "schema_types")
  /\ UNCHANGED <<world, coded, known, retry, asked, fight>>

StepSchemaTypes ==
  LET missing == {t \in CoreTypes : ~HasType(Schema, t)} IN
  /\ pc = "schema_types"
  /\ \/ /\ Fails("schema_types")
        /\ Continue(Record(findings, "schema_types", "FAILED"), "field_verification")
     \/ /\ Answers
        /\ Continue(
             SaveFixture(
               Limitation(Record(findings, "schema_types",
                                 IF missing = {} THEN "OK" ELSE "PARTIAL"),
                          {<<"no type", t, "">> : t \in missing}),
               "schema_types"), "field_verification")
  /\ UNCHANGED <<world, coded, known, retry, asked, fight>>

VerifiedTypes == DOMAIN Wanted \cup {"ReportData", "EventDataType", "HostilityType"}

StepFieldVerification ==
  LET absent == UNION {{<<"absent", t, f>> : f \in AbsentFields(Schema, t, Wanted[t])} :
                         t \in DOMAIN Wanted}
      refused == {<<"no event type", c, "">> : c \in EventTypes \ world.eventTypes}
      profiles == {<<"profile", p, "">> :
                     p \in {q \in DOMAIN Profiles : ~Profiles[q] \subseteq world.eventTypes}}
  IN /\ pc = "field_verification"
     /\ Learn(VerifiedTypes)
     /\ Answers
     /\ Continue(
          SaveFixture(
            Limitation(Record(findings, "field_verification", "OK"),
                       absent \cup IF world.eventTypes = {} THEN {}
                                   ELSE refused \cup profiles),
            "field_verification"), "discovery_paths")
     /\ UNCHANGED <<world, coded, retry, asked, fight>>

StepDiscovery ==
  LET f == Record(findings, "discovery_paths", "OK") IN
  /\ pc = "discovery_paths"
  /\ Learn(DiscoveryTypes)
  /\ Answers
  /\ Continue(IF ~Has(Schema, "ReportData", "reports")
              THEN Limitation(f, {<<"absent", "ReportData", "reports">>})
              ELSE IF Schema["ReportData"]["reports"].args
              THEN Record(f, "discovery_reports_arguments", "OK")
              ELSE f, "world_zones")
  /\ UNCHANGED <<world, coded, retry, asked, fight>>

Matches == MatchZones(world.zones, world.names, NoZone)

StepZones ==
  /\ pc = "world_zones"
  /\ \/ /\ Fails("world_zones")
        /\ Continue(Record(findings, "world_zones", "FAILED"), "reports_probe")
     \/ /\ Answers
        /\ Continue(
             SaveFixture(
               Limitation(Record(findings, "world_zones",
                                 IF world.zones = {} THEN "EMPTY" ELSE "OK"),
                          If(Matches.unmatched # {}, <<"dungeons", "unmatched", "">>)
                          \cup If(Matches.ambiguous # {}, <<"dungeons", "ambiguous", "">>)),
               "world_zones"), "reports_probe")
  /\ UNCHANGED <<world, coded, known, retry, asked, fight>>

\* The season zone recorded by the step before; none if that failed.
SeasonRecorded ==
  IF findings.steps["world_zones"] = "FAILED" THEN NoZone ELSE Matches.season

(***************************************************************************)
(* step_reports_probe, and the choice that run makes after it.  A scope is *)
(* tried by a real call, and a rejection recorded.                         *)
(***************************************************************************)
ScopeOutcomes(scope) ==
  IF scope = "zone_scoped" /\ SeasonRecorded = NoZone THEN {"SKIPPED"}
  ELSE {"REJECTED", "EMPTY", "RETURNED"}

AfterProbes(f) ==
  IF coded THEN Continue(f, "report_metadata")
  ELSE Finish(Limitation(Record(f, "report_probes", "SKIPPED"),
                         {<<"unverified", "report", "">>}))

StepReportsProbe ==
  /\ pc = "reports_probe"
  /\ Learn({"ReportData"})
  /\ Answers
  /\ IF ~Has(Schema, "ReportData", "reports")
     THEN AfterProbes(Record(findings, "reports_probe", "SKIPPED"))
     ELSE \E unscoped \in ScopeOutcomes("unscoped"), zoned \in ScopeOutcomes("zone_scoped") :
            LET usable == "RETURNED" \in {unscoped, zoned}
                f == RecordParts(
                       Record(findings, "reports_probe",
                              IF usable THEN "OK" ELSE "NO_USABLE_SCOPE"),
                       "reports_probe", [unscoped |-> unscoped, zone_scoped |-> zoned])
            IN AfterProbes(Limitation(f, If(~usable, <<"no scope", "reports", "">>)))
  /\ UNCHANGED <<world, coded, retry, asked, fight>>

(***************************************************************************)
(* step_report_metadata, one attempt of _execute_with_leaf_retry a step.   *)
(* With no report in hand, run ends there.                                 *)
(***************************************************************************)
\* Not the code: what a retry left out is not in the report.
DroppedSilently(f) == f

Dropped(f) ==
  Limitation(f, {<<"dropped", "Report", leaf>> : leaf \in retry.excluded})

MetadataSkipped ==
  /\ pc = "report_metadata"
  /\ PresentFields(Schema, "Report", Wanted["Report"]) = {}
  /\ Answers
  /\ Finish(Record(findings, "report_metadata", "SKIPPED"))
  /\ UNCHANGED <<world, coded, known, retry, asked, fight>>

Attempting(selection) ==
  /\ pc = "report_metadata"
  /\ selection = Selection("Report", retry.excluded)
  /\ PresentFields(Schema, "Report", Wanted["Report"]) # {}
  /\ Learn(SelectionTypes("Report"))

MetadataFails(f) == Finish(Dropped(Record(f, "report_metadata", "FAILED")))

MetadataUnanswered ==
  LET selection == Selection("Report", retry.excluded)
      f == Limitation(findings, SkippedIn(selection))
  IN /\ Attempting(selection)
     /\ \/ IsEmpty(selection) /\ Answers
        \/ ~IsEmpty(selection) /\ Fails("report_metadata")
     /\ MetadataFails(f)
     /\ UNCHANGED <<world, coded, retry, asked, fight>>

\* The server objects to a leaf.  What its message blames is excluded, by
\* name, for another attempt.
MetadataRejected ==
  LET selection == Selection("Report", retry.excluded)
      f == Limitation(findings, SkippedIn(selection))
  IN /\ Attempting(selection)
     /\ \E g \in GatedIn(Schema, world.gated, selection) :
          LET blamed == BlamedFields(MessageAbout(g[2]), Leaves(selection) \ retry.excluded)
          IN IF blamed = {} \/ retry.attempt = MaxAttempts
             THEN /\ retry' = [retry EXCEPT !.excluded = @ \cup blamed]
                  /\ Finish(Limitation(Record(f, "report_metadata", "FAILED"),
                                       {<<"dropped", "Report", leaf>> :
                                          leaf \in retry.excluded \cup blamed}))
             ELSE /\ retry' = [attempt |-> retry.attempt + 1,
                               excluded |-> retry.excluded \cup blamed]
                  /\ Continue(f, "report_metadata")
     /\ Answers
     /\ UNCHANGED <<world, coded, asked, fight>>

MetadataAnswered ==
  LET selection == Selection("Report", retry.excluded)
      f == Dropped(Limitation(findings, SkippedIn(selection)))
  IN /\ Attempting(selection)
     /\ ~IsEmpty(selection)
     /\ ~Rejected(selection)
     /\ Answers
     /\ asked' = With(asked, "Report", selection)
     /\ IF ~Report.found
        THEN Finish(Limitation(Record(f, "report_metadata", "FAILED"),
                               {<<"no data", "report", "">>}))
        ELSE Continue(SaveFixture(
               Limitation(Record(f, "report_metadata", "OK"),
                          If(/\ Report.archived
                             /\ "archiveStatus" \in DOMAIN selection.nested
                             /\ "isArchived" \in selection.nested["archiveStatus"],
                             <<"archived", "report", "">>)),
               "report_metadata"), "fights")
     /\ UNCHANGED <<world, coded, retry, fight>>

StepReportMetadata ==
  MetadataSkipped \/ MetadataUnanswered \/ MetadataRejected \/ MetadataAnswered

-----------------------------------------------------------------------------
\* Report.fights is "none", "raids" or "keystones".
StepFights ==
  LET selection == Selection("ReportFight", {})
      f == Limitation(findings, SkippedIn(selection))
      keystone == Report.fights = "keystones" /\ "keystoneLevel" \in selection.plain
  IN /\ pc = "fights"
     /\ Learn(SelectionTypes("ReportFight"))
     /\ \/ /\ IsEmpty(selection)
           /\ Answers
           /\ Continue(Record(f, "fights", "SKIPPED"), "master_data")
           /\ UNCHANGED <<asked, fight>>
        \/ /\ ~IsEmpty(selection)
           /\ CallWith("fights", {selection})
           /\ Continue(Record(f, "fights", "FAILED"), "master_data")
           /\ UNCHANGED <<asked, fight>>
        \/ /\ ~IsEmpty(selection) /\ ~Rejected(selection)
           /\ Answers
           /\ asked' = With(asked, "ReportFight", selection)
           /\ fight' = (Report.fights # "none")
           /\ Continue(SaveFixture(
                Limitation(Record(f, "fights", IF fight' THEN "OK" ELSE "EMPTY"),
                           If(fight' /\ ~keystone, <<"no keystone", "report", "">>)),
                "fights"), "master_data")
     /\ UNCHANGED <<world, coded, retry>>

StepMasterData ==
  /\ pc = "master_data"
  /\ \/ /\ Fails("master_data")
        /\ Continue(Record(findings, "master_data", "FAILED"), "query_cost")
     \/ /\ Answers
        /\ \E actors \in BOOLEAN :
             Continue(SaveFixture(
               Record(findings, "master_data", IF actors THEN "OK" ELSE "EMPTY"),
               "master_data"), "query_cost")
  /\ UNCHANGED <<world, coded, known, retry, asked, fight>>

\* Not the code: nothing is said of the steps that want a fight.
AfterQueryCostSilent(f) ==
  IF ~fight THEN Finish(f)
  ELSE IF "id" \in asked["ReportFight"].plain THEN Continue(f, "dungeon_pulls")
  ELSE Continue(f, "event_samples")

\* step_query_cost, and the choices run makes after it: without a fight it
\* ends, and without a numeric fight id there is no step_dungeon_pulls.
AfterQueryCost(f) ==
  IF ~fight THEN Finish(Limitation(f, {<<"no fight", "report", "">>}))
  ELSE IF "id" \in asked["ReportFight"].plain THEN Continue(f, "dungeon_pulls")
  ELSE Continue(f, "event_samples")

StepQueryCost ==
  LET selection == Selection("ReportFight", {})
      f == Limitation(findings, SkippedIn(selection))
  IN /\ pc = "query_cost"
     /\ \E status \in {"SKIPPED", "FAILED", "OK"} :
          /\ CASE status = "SKIPPED" -> IsEmpty(selection) /\ Answers
               [] status = "FAILED" -> ~IsEmpty(selection) /\ CallWith("query_cost", {selection})
               [] OTHER -> ~IsEmpty(selection) /\ ~Rejected(selection) /\ Answers
          /\ AfterQueryCost(Record(f, "query_cost", status))
     /\ UNCHANGED <<world, coded, known, retry, asked, fight>>

\* Report.pulls is "none", "single" or "twins".
StepDungeonPulls ==
  LET pull == Selection("ReportDungeonPull", {})
      npc == Selection("ReportDungeonPullNPC", {})
      f == Limitation(findings, SkippedIn(pull) \cup SkippedIn(npc))
  IN /\ pc = "dungeon_pulls"
     /\ Learn(SelectionTypes("ReportDungeonPull") \cup SelectionTypes("ReportDungeonPullNPC"))
     /\ \/ /\ IsEmpty(pull) \/ IsEmpty(npc)
           /\ Answers
           /\ Continue(Record(f, "dungeon_pulls", "SKIPPED"), "event_samples")
           /\ UNCHANGED asked
        \/ /\ ~IsEmpty(pull) /\ ~IsEmpty(npc)
           /\ CallWith("dungeon_pulls", {pull, npc})
           /\ Continue(Record(f, "dungeon_pulls", "FAILED"), "event_samples")
           /\ UNCHANGED asked
        \/ /\ ~IsEmpty(pull) /\ ~IsEmpty(npc) /\ ~Rejected(pull) /\ ~Rejected(npc)
           /\ Answers
           /\ asked' = With(With(asked, "ReportDungeonPull", pull),
                            "ReportDungeonPullNPC", npc)
           /\ Continue(SaveFixture(
                Limitation(Record(f, "dungeon_pulls",
                                  IF Report.pulls = "none" THEN "EMPTY" ELSE "OK"),
                           If(Report.pulls = "none", <<"no pulls", "fight", "">>)
                           \cup If(Report.pulls # "twins", <<"no twins", "fight", "">>)),
                "dungeon_pulls"), "event_samples")
     /\ UNCHANGED <<world, coded, retry, fight>>

(***************************************************************************)
(* step_event_samples.  Each category is a call of its own; one that fails *)
(* is recorded under its label, and the step is recorded as OK all the     *)
(* same.  Report.keys is what an event carries, Report.enemy what the      *)
(* sample of enemy casts holds: "none", "bare" or "instances".             *)
(***************************************************************************)
Timed == {"startTime", "endTime"} \subseteq asked["ReportFight"].plain
Sampled == IF world.eventTypes = {} THEN Categories ELSE Categories \cap world.eventTypes
Labels == Sampled \cup If(world.eventTypes = {} \/ "Casts" \in world.eventTypes, "Casts_enemies")

SampleLimits(ok) ==
  LET keys == IF ok \ If(Report.enemy = "none", "Casts_enemies") = {} THEN {} ELSE Report.keys
  IN {<<"no key", k, "">> : k \in IF keys = {} THEN {} ELSE Critical \ keys}
     \cup If(/\ keys # {}
             /\ keys \cap {"sourceInstance", "targetInstance"} = {},
             <<"no instances", "events", "">>)
     \cup If("Casts_enemies" \in ok /\ Report.enemy = "none", <<"no enemy casts", "events", "">>)
     \cup If("Casts_enemies" \in ok /\ Report.enemy = "bare", <<"no instance", "casts", "">>)

StepEventSamples ==
  /\ pc = "event_samples"
  /\ Learn({"EventDataType"})
  /\ \/ /\ ~Timed
        /\ Answers
        /\ Continue(Record(findings, "event_samples", "SKIPPED"), "pagination_probe")
     \/ /\ Timed
        /\ \E lost \in SUBSET Labels :
             /\ Cardinality(lost) <= faults
             /\ faults' = faults - Cardinality(lost)
             /\ failed' = failed \cup {<<"event_samples", l>> : l \in lost}
             /\ Continue(
                  Limitation(
                    RecordParts([Record(findings, "event_samples", "OK") EXCEPT
                                   !.fixtures = @ \cup (Labels \ lost)],
                                "event_samples",
                                [l \in Labels |-> IF l \in lost THEN "FAILED" ELSE "OK"]),
                    SampleLimits(Labels \ lost)),
                  "pagination_probe")
  /\ UNCHANGED <<world, coded, retry, asked, fight>>

(***************************************************************************)
(* step_pagination_probe.  The fetch of the first page is guarded, that of *)
(* the second is not, and the traversal by the paginator is again.         *)
(* Report.cursor is "single", "inclusive", "exclusive" or "unexpected".    *)
(***************************************************************************)
StepPaginationProbe ==
  /\ pc = "pagination_probe"
  /\ \/ /\ ~Timed
        /\ Answers
        /\ Finish(Record(findings, "pagination_probe", "SKIPPED"))
     \/ /\ Timed /\ Fails("pagination_probe")
        /\ Finish(Record(findings, "pagination_probe", "FAILED"))
     \/ /\ Timed /\ Report.cursor = "single"
        /\ Answers
        /\ Finish(Limitation(Record(findings, "pagination_probe", "SINGLE_PAGE"),
                             {<<"unverified", "pagination", "">>}))
     \/ /\ Timed /\ Report.cursor # "single"
        /\ \E traversal \in {"OK", "FAILED"} :
             /\ IF traversal = "OK" THEN Answers
                ELSE /\ faults > 0
                     /\ faults' = faults - 1
                     /\ failed' = failed \cup {<<"pagination_probe", "traversal">>}
             /\ Finish(RecordParts(Record(findings, "pagination_probe", "OK"),
                                   "pagination_probe",
                                   [semantics |-> Report.cursor, traversal |-> traversal]))
  /\ UNCHANGED <<world, coded, known, retry, asked, fight>>

SecondPageFails ==
  /\ pc = "pagination_probe"
  /\ Timed /\ Report.cursor # "single"
  /\ Fails("pagination_probe")
  /\ pc' = "escaped"
  /\ UNCHANGED <<world, coded, findings, known, retry, asked, fight, written>>

IntrospectionFails ==
  \/ Escapes("field_verification", VerifiedTypes)
  \/ Escapes("discovery_paths", DiscoveryTypes)
  \/ Escapes("report_metadata", SelectionTypes("Report"))
  \/ Escapes("fights", SelectionTypes("ReportFight"))
  \/ Escapes("dungeon_pulls",
             SelectionTypes("ReportDungeonPull") \cup SelectionTypes("ReportDungeonPullNPC"))

ReconNext ==
  \/ StepAuth \/ StepRateLimit \/ StepSchemaTypes \/ StepFieldVerification
  \/ StepDiscovery \/ StepZones \/ StepReportsProbe \/ StepReportMetadata
  \/ StepFights \/ StepMasterData \/ StepQueryCost \/ StepDungeonPulls
  \/ StepEventSamples \/ StepPaginationProbe
  \/ SecondPageFails \/ IntrospectionFails

ReconSpec == ReconInit /\ [][ReconNext]_reconVars

-----------------------------------------------------------------------------
ReconTypeOK ==
  /\ world \in Worlds /\ coded \in BOOLEAN /\ fight \in BOOLEAN
  /\ faults \in 0..MaxFaults
  /\ retry.attempt \in 1..MaxAttempts
  /\ DOMAIN asked \subseteq DOMAIN Wanted
  /\ fight => "ReportFight" \in DOMAIN asked
  /\ written = IF pc = "done" THEN findings ELSE NoReport

ReportSteps == {"report_metadata", "fights", "master_data", "query_cost",
                "dungeon_pulls", "event_samples", "pagination_probe"}
SchemaSteps == {"rate_limit", "schema_types", "field_verification", "discovery_paths",
                "world_zones", "reports_probe"}

Shows(report, step, status) == step \in DOMAIN report.steps /\ report.steps[step] = status

\* What a report has to say if it does not have a step.
Excused(report, step) ==
  \/ Shows(report, "auth", "FAILED")
  \/ step \in ReportSteps /\ Shows(report, "report_probes", "SKIPPED")
  \/ step \in ReportSteps \ {"report_metadata"} /\ "report_metadata" \in DOMAIN report.steps
       /\ ~Shows(report, "report_metadata", "OK")
  \/ step \in {"dungeon_pulls", "event_samples", "pagination_probe"}
       /\ <<"no fight", "report", "">> \in report.limits
  \/ step = "dungeon_pulls" /\ <<"absent", "ReportFight", "id">> \in report.limits

\* A report that is written leaves no gap: it has every step of the plan, or
\* says why not, and each call that failed, in whichever step, is on record as
\* failed, though later steps went on without it (recon.py:19).
ReportTellsAll ==
  written # NoReport =>
    /\ \A step \in SchemaSteps \cup ReportSteps :
         step \in DOMAIN written.steps \/ Excused(written, step)
    /\ \A c \in failed :
         IF c[2] = "" THEN Shows(written, c[1], "FAILED")
         ELSE c \in DOMAIN written.parts /\ written.parts[c] = "FAILED"

\* What is not in the data is in the report: each wanted field of a type that
\* was asked for, and each leaf of a field it has, was asked for, or stands in
\* the report as absent, without leaves, or dropped; by three steps of the run.
MissingIsSaid ==
  written # NoReport =>
    \A t \in DOMAIN asked : \A f \in Wanted[t] :
      \/ f \in asked[t].plain
      \/ /\ f \in DOMAIN asked[t].nested
         /\ \A leaf \in LeafFields(Schema, Schema[t][f].of, {}) \ asked[t].nested[f] :
              <<"dropped", t, leaf>> \in written.limits
      \/ <<"absent", t, f>> \in written.limits
      \/ <<"no leaves", t, f>> \in written.limits

\* The names under which the server refuses something inside a report.
RefusedNames ==
  {g[2] : g \in {h \in world.gated : h[1] \in LeafTypes(Schema, "Report", Wanted["Report"])}}

\* Leaves are dropped for good reason only, a name inside the name that the
\* server complains about not included; and no more than two refusals are
\* survived, but two always are: the metadata of a report that exists is lost
\* to refusals only where the server refuses a third name.
RetryWorks ==
  /\ retry.excluded \subseteq RefusedNames
  /\ written # NoReport /\ Shows(written, "report_metadata", "FAILED") =>
       \/ <<"report_metadata", "">> \in failed
       \/ ~Report.found
       \/ IsEmpty(Selection("Report", retry.excluded))
       \/ Cardinality(RefusedNames) >= MaxAttempts

\* "The report is written even when steps fail, because a recorded failure is
\* a Phase 0 finding" (recon.py:19).
ReportWritten == pc # "escaped"
=============================================================================
