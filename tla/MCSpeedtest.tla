----------------------------- MODULE MCSpeedtest ----------------------------
(* Command lines, distances and filters for TLC.                           *)
EXTENDS SpeedtestCallers, TLC

MCDistance == 1 :> 1 @@ 2 :> 1 @@ 3 :> 2

Early == {[Defaults EXCEPT !.usage = TRUE], [Defaults EXCEPT !.version = TRUE],
          [Defaults EXCEPT !.csvHeader = TRUE], [Defaults EXCEPT !.delimiter = TRUE],
          [Defaults EXCEPT !.csvHeader = TRUE, !.delimiter = TRUE],
          [Defaults EXCEPT !.missing = TRUE], [Defaults EXCEPT !.list = TRUE],
          [Defaults EXCEPT !.download = FALSE, !.upload = FALSE]}

Choosing == {[Defaults EXCEPT !.server = s, !.exclude = x, !.mini = m, !.upload = FALSE] :
               s \in {{}, {1}, {1, 3}}, x \in {{}, {1}, {1, 2}}, m \in BOOLEAN}

Sharing == {[Defaults EXCEPT !.share = TRUE, !.simple = s, !.machine = m, !.download = d] :
              s \in BOOLEAN, m \in {"none", "csv", "json"}, d \in BOOLEAN}

MCArgs == Early \cup Choosing \cup Sharing

MCFilters == {NoFilter, [servers |-> {1, 3}, exclude |-> {}],
              [servers |-> {}, exclude |-> {1}]}
=============================================================================
