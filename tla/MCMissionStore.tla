--------------------------- MODULE MCMissionStore ---------------------------
(* Small instances of MissionStore: two requests at a time, one verifier.  *)
EXTENDS MissionStore, TLC

CONSTANTS c1, c2, verifier, reviewer, a1, m1, E1, E2

MCTeam == {<<verifier>>}
MCReport(id, status, observed, evidence, at) ==
    [id |-> id, status |-> status, observed |-> observed,
     sig |-> IF status = "passed" THEN NoError ELSE E1, evidence |-> evidence, at |-> at]

\* A pass, one without exit codes under the same id, an old pass under the id of
\* the first verify; a failure.
MCPass == MCReport(<<"client", 0>>, "passed", TRUE, TRUE, 1)
MCBarePass == MCReport(<<"client", 0>>, "passed", TRUE, FALSE, 1)
MCOldPass == MCReport(<<"verify", 0>>, "passed", TRUE, TRUE, 0)
MCFail == MCReport(<<"client", 1>>, "failed", TRUE, TRUE, 1)
MCReports == {MCPass, MCOldPass}
MCPlainReports == {MCFail, MCPass, MCBarePass}
MCTwoResults == {<<"passed", NoError>>, <<"failed", E1>>}
MCResults == {<<"passed", NoError>>, <<"failed", E1>>, <<"blocked", E2>>}

\* The two requests may trade places.
MCSymmetry == Permutations({c1, c2})
=============================================================================
