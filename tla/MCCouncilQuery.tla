---------------------------- MODULE MCCouncilQuery ----------------------------
(* CouncilQuery: one query in each mode, with and without its keys and       *)
(* fallbacks, beside one that asks the browser only.                         *)
EXTENDS CouncilQuery

As(mode, key, opusKey, opus) ==
    [mode |-> mode, key |-> key, opusKey |-> opusKey, opus |-> opus,
     fallback |-> FALSE, tier3 |-> FALSE, direct |-> {}]

Rich == {
    As("api", FALSE, TRUE, FALSE),
    As("api", TRUE, TRUE, FALSE),
    As("auto", TRUE, FALSE, FALSE),
    As("auto", FALSE, FALSE, FALSE),
    As("browser", FALSE, TRUE, TRUE),
    [As("direct", FALSE, TRUE, FALSE) EXCEPT !.direct = {CHOOSE m \in Model : TRUE}],
    [As("api", TRUE, FALSE, FALSE) EXCEPT !.fallback = TRUE],
    [As("api", TRUE, FALSE, FALSE) EXCEPT !.fallback = TRUE, !.tier3 = TRUE, !.direct = Model]}

First1 == CHOOSE q \in Query : TRUE

MCSettings ==
    {[q \in Query |-> IF q = First1 THEN s ELSE As("browser", FALSE, FALSE, FALSE)] :
       s \in Rich}
===============================================================================
