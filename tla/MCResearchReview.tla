---------------------------- MODULE MCResearchReview ----------------------------
(***************************************************************************)
(* Small checkouts for ResearchReview.                                     *)
(***************************************************************************)
EXTENDS ResearchReview, SequencesExt, TLC

CONSTANTS readme, app, config1, data, manifest1, manifest2, invented

Sorted == <<app, config1, data, manifest1, manifest2, readme>>
Studies == <<manifest1, manifest2>>
Declared == <<manifest1, readme, data, config1, app, manifest2>>

Tree(d1, d2, p) == [declares |-> (manifest1 :> d1) @@ (manifest2 :> d2), present |-> p]

\* Two studies that share a file; the first one changed, and gone; an artifact
\* that is declared and missing.
Both == Tree({manifest1, config1}, {manifest2, config1}, ToSet(Sorted))
Rewritten == Tree({manifest1, data}, {manifest2, config1}, ToSet(Sorted))
Second == Tree({}, {manifest2, data}, ToSet(Sorted) \ {manifest1, app})
Missing == Tree({manifest1, config1, data}, {}, ToSet(Sorted) \ {data})
SmallTrees == {Both, Rewritten, Second, Missing}

Changes == {{readme, app, config1}, {readme, manifest2}, {app}}

Config(e, c, f, x) == [enabled |-> e, calls |-> c, files |-> f, context |-> x, output |-> 2]
SmallConfigs == {Config(TRUE, 2, f, x) : f \in {2, 3, 5}, x \in {3, 6, 9}}
                \cup {Config(FALSE, 2, 3, 6), Config(TRUE, 1, 3, 6)}

\* A claim the audits inform, with a hint that leads nowhere; one with a hint at
\* the code; one without evidence.
Metric == [matches |-> {config1, app}, hints |-> {invented}, audited |-> TRUE]
Change == [matches |-> {app}, hints |-> {app}, audited |-> FALSE]
SmallClaims == {Metric, Change}
====
