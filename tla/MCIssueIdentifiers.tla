------------------------- MODULE MCIssueIdentifiers -------------------------
(***************************************************************************)
(* Instances of IssueIdentifiers for TLC.                                   *)
(***************************************************************************)
EXTENDS IssueIdentifiers, TLC

CONSTANTS core, web, ENG, OPS, first, second

MCTeams == {core, web}
MCKeys == {ENG, OPS}
PlainIds == {first, second}

\* valid_id accepts "ENG-1", so a client may choose it as the id of an issue.
SpelledIds == {first, <<ENG, 1>>}

AllRequests == Request

WorkerSymmetry == Permutations(Workers)

=============================================================================
