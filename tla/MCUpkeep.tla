----------------------------- MODULE MCUpkeep -----------------------------
(* Two jobs, one of them broken; two Alertmanagers, one of them flaky, with *)
(* a duplicate, a silence of an old configuration and a stranger's.         *)
EXTENDS Upkeep
CONSTANTS am1, am2, job1, job2, wanted, stale, empty, plain, spaced

MCComments == {empty, plain, spaced}
MCTrim == [c \in MCComments |-> IF c = spaced THEN plain ELSE c]
J(d, m, c) == [disabled |-> d, marked |-> m, text |-> c]
MCJobsAtFirst ==
    {[j \in {job1, job2} |-> IF j = job2 THEN J(FALSE, FALSE, plain) ELSE s] :
        s \in {J(FALSE, FALSE, plain), J(FALSE, FALSE, spaced), J(TRUE, FALSE, plain),
               J(TRUE, TRUE, plain)}}
S(i, k, o, l) == [id |-> i, key |-> k, ours |-> o, left |-> l]
MCAtFirst ==
    [a \in {am1, am2} |->
        IF a = am2 THEN {{}}
        ELSE {{S(1, wanted, FALSE, 3)},
              {S(1, wanted, TRUE, 1), S(2, wanted, TRUE, 2), S(3, stale, TRUE, 3)}}]
MCSetups ==
    {[level |-> "full", managed |-> TRUE, urls |-> {}],
     [level |-> "full", managed |-> FALSE, urls |-> {am1, am2}],
     [level |-> "alert", managed |-> FALSE, urls |-> {am1}]}
=============================================================================
