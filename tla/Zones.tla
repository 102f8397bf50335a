-------------------------------- MODULE Zones --------------------------------
(***************************************************************************)
(* match_zones (discover.py): the dungeons a registry names, looked up in  *)
(* the live zone list.  A Mythic+ season is one zone whose encounters are  *)
(* its dungeons, and a dungeon may return in a later season by its name.   *)
(*                                                                         *)
(* A zone is [id, name, encounters], where encounters is a set of          *)
(* [id, name]; names[d] is what the registry calls dungeon d, its display  *)
(* name and aliases.                                                       *)
(***************************************************************************)
EXTENDS FiniteSets

CONSTANT NoZone   \* no season zone is pinned, or could be inferred

EncounterHits(zones, called) ==
  UNION {{<<z.id, e.id>> : e \in {x \in z.encounters : x.name \in called}} : z \in zones}

ZoneHits(zones, called) == {z.id : z \in {y \in zones : y.name \in called}}

EncountersOf(zones, id) ==
  {e.id : e \in UNION {z.encounters : z \in {y \in zones : y.id = id}}}

AsEncounter(hit) == [zone |-> hit[1], encounters |-> {hit[2]}]
AsZone(zones, id) == [zone |-> id, encounters |-> EncountersOf(zones, id)]

(***************************************************************************)
(* The first pass settles every dungeon with one encounter by its name,    *)
(* or with none and one zone.                                              *)
(***************************************************************************)
SettledFirst(zones, names) ==
  {d \in DOMAIN names :
     \/ Cardinality(EncounterHits(zones, names[d])) = 1
     \/ /\ EncounterHits(zones, names[d]) = {}
        /\ Cardinality(ZoneHits(zones, names[d])) = 1}

FirstMatch(zones, called) ==
  IF EncounterHits(zones, called) # {}
  THEN AsEncounter(CHOOSE h \in EncounterHits(zones, called) : TRUE)
  ELSE AsZone(zones, CHOOSE z \in ZoneHits(zones, called) : TRUE)

SeasonZone(zones, names, pinned) ==
  LET agreed == {FirstMatch(zones, names[d]).zone : d \in SettledFirst(zones, names)}
  IN IF pinned # NoZone THEN pinned
     ELSE IF Cardinality(agreed) = 1 THEN CHOOSE z \in agreed : TRUE
     ELSE NoZone

(***************************************************************************)
(* The second pass looks up the names that occur more than once inside     *)
(* the season zone.  What is left is reported: ambiguous or unmatched.     *)
(***************************************************************************)
SettledSecond(zones, names, season) ==
  {d \in DOMAIN names \ SettledFirst(zones, names) :
     \/ Cardinality({h \in EncounterHits(zones, names[d]) : h[1] = season}) = 1
     \/ EncounterHits(zones, names[d]) = {} /\ season \in ZoneHits(zones, names[d])}

\* Not the code: the first of several encounters is taken.
SecondMatchAnywhere(zones, called, season) ==
  IF EncounterHits(zones, called) # {}
  THEN AsEncounter(CHOOSE h \in EncounterHits(zones, called) : TRUE)
  ELSE AsZone(zones, season)

SecondMatch(zones, called, season) ==
  IF EncounterHits(zones, called) # {}
  THEN AsEncounter(CHOOSE h \in EncounterHits(zones, called) : h[1] = season)
  ELSE AsZone(zones, season)

MatchZones(zones, names, pinned) ==
  LET season == SeasonZone(zones, names, pinned)
      first == SettledFirst(zones, names)
      second == SettledSecond(zones, names, season)
      unmatched == {d \in DOMAIN names : /\ EncounterHits(zones, names[d]) = {}
                                         /\ ZoneHits(zones, names[d]) = {}}
  IN [season |-> season,
      matched |-> [d \in first \cup second |->
                     IF d \in first THEN FirstMatch(zones, names[d])
                     ELSE SecondMatch(zones, names[d], season)],
      unmatched |-> unmatched,
      ambiguous |-> DOMAIN names \ (first \cup second \cup unmatched)]
=============================================================================
