---------------------------- MODULE MCCollector ----------------------------
(***************************************************************************)
(* Instances of Collector for TLC.  Cursors are small numbers; a stream is *)
(* given by the sequence of the cursors its pages are read at.             *)
(***************************************************************************)
EXTENDS Collector, TLC

CONSTANTS
  archive, report, other,   \* reports
  r0, r1, r2,               \* runs
  casts, deaths, focus,     \* streams
  v1, v2                    \* identity schemes

MCReports == {archive, report, other}
MCFightsIn == archive :> <<r0>> @@ report :> <<r1, r2>> @@ other :> <<>>
MCRuns == {r0, r1, r2}
MCStreams == {casts, deaths, focus}
MCCursors == 0 .. 2

\* casts has three pages, the others one.
MCNextOf ==
  [k \in MCRuns \X MCStreams |->
     IF k[2] = casts THEN 0 :> 1 @@ 1 :> 2 @@ 2 :> None
                     ELSE [c \in MCCursors |-> None]]

NoCursor == [k \in MCRuns \X MCStreams |-> {}]

(***************************************************************************)
(* Everything goes wrong: the second page of r1's casts only repeats the   *)
(* first, three pages are over the ceiling of two, and the stream of the   *)
(* focus player has the type of a stream of the party.                     *)
(***************************************************************************)
FaultyCandidates == <<archive, report>>
FaultyRepeatAt == [NoCursor EXCEPT ![<<r1, casts>>] = {1}]
FaultyTypeOf == casts :> 1 @@ deaths :> 2 @@ focus :> 2

(***************************************************************************)
(* A healthy server and profile: only the faults and --refresh are left.   *)
(***************************************************************************)
HealthyCandidates == <<other, report>>
HealthyTypeOf == casts :> 1 @@ deaths :> 2 @@ focus :> 3
PartyOfTwo == <<casts, deaths>>
PartyOfOne == <<casts>>
NoStreams == <<>>
FocusOnly == <<focus>>
=============================================================================
