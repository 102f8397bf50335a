----------------------------- MODULE MCCommands -----------------------------
(***************************************************************************)
(* The commands of Commands on small worlds: what each of them is given.   *)
(***************************************************************************)
EXTENDS Commands

-----------------------------------------------------------------------------
\* The worlds of recon: a field, a type or a permission is missing, or not.
scalar == [kind |-> "SCALAR", of |-> "String", args |-> FALSE]
object(t) == [kind |-> "OBJECT", of |-> t, args |-> FALSE]
withArgs == [kind |-> "OBJECT", of |-> "ReportPagination", args |-> TRUE]

MCPreferred == {"id", "name", "slug", "compactName"}
MCRisky == {"avatar", "battleTag"}
MCWithin == {<<"name", "compactName">>}
MCCoreTypes == {"Report", "ReportFight", "ReportDungeonPull", "EventDataType"}
MCWanted ==
  [Report |-> {"code", "zone", "owner", "archiveStatus"},
   ReportFight |-> {"id", "startTime", "endTime", "keystoneLevel", "gameZone"},
   ReportDungeonPull |-> {"id", "maps"},
   ReportDungeonPullNPC |-> {"id", "gameID"}]
MCEventTypes == {"Casts", "Deaths", "Healing"}
MCCategories == {"Casts", "Deaths"}
MCProfiles == [full |-> {"Casts", "Healing"}]
MCCritical == {"timestamp", "sourceID"}

FullSchema ==
  [Report |-> [code |-> scalar, zone |-> object("Zone"), owner |-> object("User"),
               archiveStatus |-> object("ReportArchiveStatus")],
   Zone |-> [id |-> scalar, name |-> scalar],
   User |-> [name |-> scalar, compactName |-> scalar, avatar |-> scalar, realm |-> scalar],
   ReportArchiveStatus |-> [isArchived |-> scalar, archiveDate |-> scalar],
   ReportFight |-> [id |-> scalar, startTime |-> scalar, endTime |-> scalar,
                    keystoneLevel |-> scalar, gameZone |-> object("GameZone")],
   GameZone |-> [id |-> scalar, name |-> scalar],
   ReportDungeonPull |-> [id |-> scalar, maps |-> object("ReportMap")],
   ReportMap |-> [id |-> scalar],
   ReportDungeonPullNPC |-> [id |-> scalar, gameID |-> scalar],
   ReportData |-> [reports |-> withArgs],
   EventDataType |-> <<>>]

WithoutField(s, t, f) == [s EXCEPT ![t] = [g \in DOMAIN @ \ {f} |-> @[g]]]
WithoutType(s, t) == [u \in DOMAIN s \ {t} |-> s[u]]

MCSchemas ==
  {WithoutField(WithoutField(FullSchema, "ReportFight", "id"), "ReportData", "reports"),
   WithoutField(WithoutField(FullSchema, "ReportFight", "startTime"), "ReportMap", "id"),
   WithoutField([FullSchema EXCEPT !["ReportData"] = [reports |-> object("X")]],
                "ReportFight", "keystoneLevel"),
   WithoutType(WithoutType(FullSchema, "EventDataType"), "ReportDungeonPullNPC"),
   WithoutType(FullSchema, "ReportFight"),
   [WithoutType(FullSchema, "Zone") EXCEPT !["Report"] = [zone |-> object("Zone")]],
   WithoutType(FullSchema, "Report")}

MCGated ==
  {{<<"User", "compactName">>}, {<<"User", "compactName">>, <<"User", "name">>},
   {<<"User", "name">>, <<"User", "compactName">>, <<"User", "realm">>},
   {<<"Zone", "id">>, <<"Zone", "name">>},
   {<<"ReportMap", "id">>}, {<<"GameZone", "name">>}, {<<"Zone", "id">>, <<"User", "realm">>}}

Quiet == [found |-> TRUE, archived |-> FALSE, fights |-> "keystones", pulls |-> "twins",
          cursor |-> "inclusive", enemy |-> "instances",
          keys |-> {"timestamp", "sourceID", "sourceInstance"}]
MCReports ==
  {[Quiet EXCEPT !.found = FALSE],
   [Quiet EXCEPT !.archived = TRUE, !.fights = "none"],
   [Quiet EXCEPT !.fights = "raids", !.pulls = "none", !.enemy = "none",
                 !.cursor = "single", !.keys = {"timestamp"}],
   [Quiet EXCEPT !.pulls = "single", !.enemy = "bare", !.cursor = "unexpected"]}

OneSeason == {[id |-> 1, name |-> "season", encounters |-> {[id |-> 7, name |-> "halls"]}]}

World(s, g, r, z) ==
  [schema |-> s, gated |-> g, report |-> r, zones |-> z, names |-> [halls |-> {"halls"}],
   eventTypes |-> IF "EventDataType" \in DOMAIN s THEN {"Casts", "Deaths"} ELSE {}]

MCWorlds ==
  {World(FullSchema, {}, Quiet, OneSeason)}
  \cup {World(s, {}, Quiet, {}) : s \in MCSchemas}
  \cup {World(FullSchema, g, Quiet, {}) : g \in MCGated}
  \cup {World(FullSchema, {<<"User", "compactName">>}, r, {}) : r \in MCReports}

-----------------------------------------------------------------------------
\* Three seasons: "halls" is in all of them; "spire" is to return in the second
\* one, whose zone does not list it; only "crypt" tells the third.
MCSeasons == 1..3
MCLineup == <<{"halls", "spire"}, {"halls", "spire", "vault"}, {"halls", "vault", "crypt"}>>
MCListed == <<{"halls", "spire"}, {"halls", "vault"}, {"halls", "vault", "crypt"}>>
MCDisplayName == [halls |-> "Halls", spire |-> "Spire", vault |-> "Vault", crypt |-> "Crypt"]
MCAliases == [halls |-> {}, spire |-> {"The Spire"}, vault |-> {}, crypt |-> {}]
MCOtherZones == {[id |-> 9, name |-> "Raids", encounters |-> {[id |-> <<9, "boss">>, name |-> "Boss"]}]}
MCRequests == {"current", "old"}

-----------------------------------------------------------------------------
\* Two processes of one release and one of the release before it.
MCOpeners == {"old", "new", "other"}
MCExpected == [old |-> 2, new |-> 3, other |-> 3]
MCNumbered == [old |-> {1, 2}, new |-> {1, 2, 3}, other |-> {1, 2, 3}]
MCStatements == <<2, 1, 2>>

-----------------------------------------------------------------------------
\* A log of one page, one of a single time, one in which a page ends within a time,
\* one that is longer than the cap and an empty one; and servers with either rule
\* that apply or ignore each filter.
event(ts, side, source, target) ==
  [ts |-> ts, side |-> side, source |-> source, target |-> target]
MCLogs ==
  {<<event(1, "Enemies", "npc", "me"), event(2, "Friendlies", "me", "npc"),
     event(2, "Friendlies", "ally", "npc")>>,
   [i \in 1..4 |-> event(1, "Friendlies", IF i = 4 THEN "ally" ELSE "me", "me")],
   <<event(1, "Enemies", "npc", "me"), event(2, "Friendlies", "me", NoActor),
     event(3, "Enemies", "npc", "ally"), event(3, "Enemies", "npc", "me")>>,
   [i \in 1..7 |-> IF i % 2 = 0 THEN event(i, "Enemies", "npc", "me")
                                ELSE event(i, "Friendlies", "me", "npc")],
   <<>>}
MCServers ==
  [log : MCLogs, rule : {"inclusive", "exclusive"},
   unfiltered : {{"Enemies"}, {"Friendlies"}, {"Enemies", "Friendlies"}},
   hostility : BOOLEAN, source : BOOLEAN, target : {TRUE}, both : {TRUE}]
  \cup [log : MCLogs, rule : {"inclusive", "exclusive"}, unfiltered : {{"Enemies", "Friendlies"}},
        hostility : {TRUE}, source : {TRUE}, target : BOOLEAN, both : {FALSE}]

-----------------------------------------------------------------------------
\* Pulls apart, touching, overlapping, nested, starting together, one that
\* spans several, and one without an id between two others.
pull(i, a, b) == [id |-> i, start |-> a, stop |-> b]
MCPullSets ==
  {{}, {pull(1, 1, 2), pull(2, 4, 5)}, {pull(1, 1, 3), pull(2, 3, 5)},
   {pull(1, 1, 5), pull(2, 2, 3), pull(3, 4, 4)}, {pull(2, 1, 4), pull(1, 1, 2)},
   {pull(1, 1, 2), pull(NoId, 2, 4), pull(2, 3, 3), pull(3, 5, 5)}}
MCMoments == 0..5

-----------------------------------------------------------------------------
MCInitialList == <<"a", "b", "c">>
MCUploads == {"d", "e"}
MCLimits == {1, 3, Forever}

-----------------------------------------------------------------------------
\* Runs of two profiles, one of them narrowed to an actor, in every state.
stream(t, f) == [type |-> t, side |-> "any", focus |-> f]
MCManifests ==
  {<<>>, stream("Casts", NoFocus) :> "ok",
   stream("Casts", NoFocus) :> "ok" @@ stream("Casts", 4) :> "truncated",
   stream("Casts", 4) :> "ok"}
MCRunRows ==
  [manifest : MCManifests, standing : {"unexamined", "canonical", "duplicate"},
   status : {"complete", "partial"}, dungeon : {"halls"}, outside : {FALSE}]
  \cup {[manifest |-> stream("Casts", NoFocus) :> "ok", standing |-> "canonical",
         status |-> "complete", dungeon |-> "spire", outside |-> TRUE]}
=============================================================================
