------------------------------- MODULE Catalog -------------------------------
(***************************************************************************)
(* How a dungeon gets its identifiers, from season to season: the authored *)
(* registry, the overlay that discover-dungeons --write generates          *)
(* (discover.py), the merge of both at load time (configs.py), the cached  *)
(* zone list, and what collect makes of a fight by the result (collect.py).*)
(*                                                                         *)
(* The server lists the zones of the seasons opened so far; a dungeon has  *)
(* an encounter of its own in the zone of each season it belongs to.       *)
(***************************************************************************)
EXTENDS Zones, Integers

CONSTANTS
  Seasons,       \* 1..n
  Lineup,        \* season -> the dungeons configured for it
  Listed,        \* season -> those that its zone lists
  DisplayName,   \* dungeon -> the server's spelling of its name
  Aliases,       \* dungeon -> other spellings
  SeasonTitle,   \* what the zones of seasons are called: no dungeon's name
  OtherZones,    \* zones that are no season's
  Requests,      \* the values --expansion is given; one cache entry each
  NoOverlay, NoAnswer

Dungeons == UNION {Lineup[s] : s \in Seasons}
DungeonNames == [d \in Dungeons |-> {DisplayName[d]} \cup Aliases[d]]

\* No dungeon bears the name of another or of a season's zone, and no other zone
\* the identifiers of a season.
ASSUME CatalogAssumption ==
  /\ Cardinality(Seasons) \in Nat \ {0} /\ Seasons = 1..Cardinality(Seasons)
  /\ \A s \in Seasons : IsFiniteSet(Listed[s])
  /\ \A d \in Dungeons :
       /\ SeasonTitle \notin DungeonNames[d]
       /\ \A s \in Seasons : \A e \in (Lineup[s] \cup Listed[s]) \ {d} :
            DisplayName[e] \notin DungeonNames[d]
  /\ IsFiniteSet(OtherZones)
  /\ \A z \in OtherZones :
       /\ z.id \notin Seasons
       /\ IsFiniteSet(z.encounters)
       /\ \A e \in z.encounters : e.id \notin Seasons \X Dungeons

SeasonsZone(s) ==
  [id |-> s, name |-> SeasonTitle,
   encounters |-> {[id |-> <<s, d>>, name |-> DisplayName[d]] : d \in Listed[s]}]

LiveZones(upTo) == OtherZones \cup {SeasonsZone(s) : s \in 1..upTo}

VARIABLES
  opened,     \* the latest season the server lists
  authored,   \* config/dungeons.yml: the season it describes
  overlay,    \* config/dungeons.discovered.yml
  answers     \* the raw cache: request -> zone list

catalogVars == <<opened, authored, overlay, answers>>

CatalogInit ==
  /\ opened = 1
  /\ authored = 1
  /\ overlay = NoOverlay
  /\ answers = [r \in Requests |-> NoAnswer]

(***************************************************************************)
(* DungeonRegistry.load.  The season block of the overlay replaces the     *)
(* authored one; an entry only the overlay has is appended, and called by  *)
(* its key alone, which no zone or encounter is.                           *)
(***************************************************************************)
Entries == IF overlay = NoOverlay THEN <<>> ELSE overlay.entries

Registry ==
  LET found == DOMAIN Entries
  IN [season |-> IF overlay = NoOverlay THEN authored ELSE overlay.season,
      pinned |-> IF overlay = NoOverlay THEN NoZone ELSE overlay.zone,
      names |-> [d \in Lineup[authored] \cup found |->
                   IF d \in Lineup[authored] THEN DungeonNames[d] ELSE {}],
      zone |-> [d \in Lineup[authored] \cup found |->
                  IF d \in found THEN Entries[d].zone ELSE NoZone],
      encounters |-> [d \in Lineup[authored] \cup found |->
                        IF d \in found THEN Entries[d].encounters ELSE {}]]

BuildOverlay(result, basis) ==
  [basis |-> basis,
   season |-> Registry.season,
   verified |-> DOMAIN result.matched = DOMAIN Registry.names /\ result.unmatched = {},
   zone |-> result.season,
   entries |-> result.matched]

-----------------------------------------------------------------------------
\* The world: a season opens, the user rewrites dungeons.yml for it, deletes
\* the overlay, or empties the raw cache.
SeasonOpens ==
  /\ opened + 1 \in Seasons
  /\ opened' = opened + 1
  /\ UNCHANGED <<authored, overlay, answers>>

AuthorSeason ==
  /\ authored < opened
  /\ authored' = authored + 1
  /\ UNCHANGED <<opened, overlay, answers>>

DeleteOverlay ==
  /\ overlay # NoOverlay
  /\ overlay' = NoOverlay
  /\ UNCHANGED <<opened, authored, answers>>

EmptyCache ==
  /\ \E r \in Requests : answers[r] # NoAnswer
  /\ answers' = [r \in Requests |-> NoAnswer]
  /\ UNCHANGED <<opened, authored, overlay>>

\* fetch_zones: the client answers from the raw cache if it can.
FetchZones(r) == IF answers[r] # NoAnswer THEN answers[r] ELSE LiveZones(opened)

(***************************************************************************)
(* discover-dungeons --write.  What the overlay was made from is recorded  *)
(* with it, for the properties: the zone list, the authored season, and    *)
(* whether an overlay had pinned a zone.                                   *)
(***************************************************************************)
DiscoverDungeons(r) ==
  LET zones == FetchZones(r)
      result == MatchZones(zones, Registry.names, Registry.pinned)
      basis == [zones |-> zones, authored |-> authored,
                pinned |-> Registry.pinned # NoZone]
  IN /\ answers' = [answers EXCEPT ![r] = zones]
     /\ overlay' = IF DOMAIN result.matched = {} THEN overlay
                   ELSE BuildOverlay(result, basis)
     /\ UNCHANGED <<opened, authored>>

(***************************************************************************)
(* collect: the fights --dungeon selects, and the dungeon a fight is taken *)
(* for, by its encounter and then by the name of its zone in the game.     *)
(***************************************************************************)
FightIn(s, d) == [encounter |-> <<s, d>>, called |-> DisplayName[d]]

Selected(fight, wanted) ==
  IF Registry.encounters[wanted] # {}
  THEN fight.encounter \in Registry.encounters[wanted]
  ELSE wanted \in Lineup[authored] /\ fight.called = DisplayName[wanted]

ResolveDungeon(fight) ==
  LET byEncounter == {d \in DOMAIN Registry.names :
                        fight.encounter \in Registry.encounters[d]}
      byName == {d \in DOMAIN Registry.names : fight.called \in Registry.names[d]}
  IN IF byEncounter # {} THEN byEncounter ELSE byName

CatalogNext ==
  \/ SeasonOpens \/ AuthorSeason \/ DeleteOverlay \/ EmptyCache
  \/ \E r \in Requests : DiscoverDungeons(r)

CatalogSpec == CatalogInit /\ [][CatalogNext]_catalogVars

-----------------------------------------------------------------------------
CatalogTypeOK ==
  /\ opened \in Seasons
  /\ authored \in 1..opened
  /\ overlay # NoOverlay =>
       /\ overlay.season \in Seasons
       /\ overlay.verified \in BOOLEAN
       /\ overlay.zone \in Seasons \cup {z.id : z \in OtherZones} \cup {NoZone}
       /\ DOMAIN overlay.entries \subseteq Dungeons
  /\ \A r \in Requests : answers[r] = NoAnswer \/ \E s \in Seasons : answers[r] = LiveZones(s)

\* The zones in which all dungeons that occur once occur.
Telling(basis) ==
  LET names == [d \in Lineup[basis.authored] |-> DungeonNames[d]]
      once == SettledFirst(basis.zones, names)
  IN /\ once # {}
     /\ \A d \in once : FirstMatch(basis.zones, names[d]).zone = basis.authored

InItsSeason(o) ==
  \A d \in DOMAIN o.entries \cap Listed[o.basis.authored] :
    o.entries[d].zone = o.basis.authored

\* Where no zone is pinned and the dungeons that occur once are all in the
\* season that dungeons.yml describes, discovery places every dungeon of the
\* line-up in that season, those that other seasons have as well included, and
\* as long as dungeons.yml stays, --dungeon finds the season's runs of each.
\* And whatever the seasons, the overlay and the cache have been through, a run
\* of any season is taken for its own dungeon or for none, and --dungeon takes
\* none of another: the identifiers of an old overlay are of the dungeon it says.
SeasonInferredRight ==
  /\ overlay # NoOverlay /\ ~overlay.basis.pinned /\ Telling(overlay.basis) =>
       /\ InItsSeason(overlay)
       /\ authored = overlay.basis.authored =>
            \A d \in Listed[authored] \cap Lineup[authored] :
              Selected(FightIn(authored, d), d)
  /\ \A s \in 1..opened : \A d \in Lineup[s] :
       /\ ResolveDungeon(FightIn(s, d)) \subseteq {d}
       /\ \A w \in DOMAIN Registry.names : Selected(FightIn(s, d), w) => w = d

\* "Re-run discovery after a season change" (discover.py:39): with a zone list
\* that tells the season, whatever an earlier discovery wrote.
RediscoveryRight ==
  overlay # NoOverlay /\ Telling(overlay.basis) => InItsSeason(overlay)
=============================================================================
