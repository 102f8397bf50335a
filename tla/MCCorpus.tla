------------------------------ MODULE MCCorpus ------------------------------
(***************************************************************************)
(* Instances of Corpus for TLC.  Two fights of one report, the first given *)
(* up early, and an upload of the key by somebody else that began between  *)
(* the two: it is near enough to both.                                     *)
(***************************************************************************)
EXTENDS Corpus, TLC

Fight(report, start, duration) ==
  [report |-> report, dungeon |-> "murder-row", level |-> 12, start |-> start,
   duration |-> duration, roster |-> {"tank", "healer", "dps"}, affixes |-> "fortified"]

MCUpload == 1 :> Fight("A", 0, 4) @@ 2 :> Fight("B", 3, 30) @@ 3 :> Fight("A", 5, 30)

\* One derivation of every kind, on what no pass has classified or on the classified.
MCPlans == {[policy |-> "permissive", needs |-> {}, grade |-> "deep"],
            [policy |-> "strict", needs |-> {1}, grade |-> "page"]}

\* Bounds: three runs for dedupe alone, which reads none of their pages; no pass and no
\* more than three visits up to the end of a derivation, which reads the classification
\* once, to begin with.
Bounded ==
  /\ Cardinality(Present) = 3 => study = NoStudy /\ \A r \in Runs, s \in Streams : pages[r][s] = <<>>
  /\ study # NoStudy => pass = None /\ visits <= 3
=============================================================================
