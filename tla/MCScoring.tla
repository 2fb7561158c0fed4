------------------------------ MODULE MCScoring ------------------------------
EXTENDS Scoring

MCCases == {[mode |-> "auto_eligible", domain |-> 1, synthetic |-> FALSE],
            [mode |-> "unsupervised", domain |-> Null, synthetic |-> FALSE],
            [mode |-> "synthetic_demo", domain |-> Null, synthetic |-> TRUE]}

Candidate(release, eligibility, proven, intact, breaks) ==
    [release |-> release, eligibility |-> eligibility, domain |-> 1, proven |-> proven, intact |-> intact, breaks |-> breaks]
MCCandidates == {Candidate("candidate-a", "validated_candidate", TRUE, TRUE, FALSE),
                 Candidate("candidate-b", "validated_candidate", TRUE, TRUE, TRUE),
                 Candidate("candidate-c", "validated_candidate", FALSE, TRUE, FALSE),
                 Candidate("candidate-d", "synthetic_demo", FALSE, TRUE, FALSE)}

(* Scores tie, and the times are in another order than the ids; the stack   *)
(* flags two, a candidate two.                                              *)
MCScore == [release \in {Stack} \cup {c.release : c \in MCCandidates} |->
               IF release = Stack THEN <<1, 3, 3>> ELSE <<5, 3, 5>>]
MCSlot == <<1, 3, 2>>
(* One calibration fits the stack, one a candidate and only its release.    *)
MCCalibrations == {[fits |-> [rule \in {"anomaly_stack_rank", "rapid"} |-> IF rule = "rapid" THEN "deterministic-v1" ELSE Stack],
                    known |-> TRUE],
                   [fits |-> [rule \in {"candidate_pattern_triage"} |-> "candidate-d"], known |-> TRUE]}
MCPatterns == {<<11, "rapid">>}
MCCorrelated == [geo \in BOOLEAN |->
    IF geo THEN [k \in {<<21, "relay">>, <<22, "mismatch">>} |-> IF k[1] = 21 THEN 4 ELSE 9]
    ELSE [k \in {<<21, "relay">>} |-> 4]]
MCReaches == {{31}}
=============================================================================
