--------------------------- MODULE MCReviewGroups ---------------------------
EXTENDS ReviewGroups, TLC

\* Group ids follow the order of the findings, or run against it.
ForwardAndBack == [r \in Releases |-> [f \in Findings |-> IF r = "r1" THEN f ELSE MaxFindings + 1 - f]]

Profile(family, focal, bounded, anchors, score) ==
    [family |-> family, focal |-> focal, day |-> "monday", bounded |-> bounded, anchors |-> anchors, score |-> score]

\* Family 1 is a peeling detector, family 2 is not.
Shapes ==
    << {Profile(1, "a", TRUE, {"x"}, 1), Profile(2, "a", TRUE, {"x"}, 1)},
       {Profile(1, "b", TRUE, {"x", "y"}, 2), Profile(1, "b", FALSE, {"x"}, 2), Profile(1, "b", TRUE, {"y"}, 2),
        Profile(2, "a", TRUE, {"x"}, 2)},
       {Profile(1, "a", TRUE, {"x"}, 1), Profile(1, "a", TRUE, {"y"}, 2), Profile(1, "a", TRUE, {"x", "y"}, 1),
        Profile(2, "b", TRUE, {"x"}, 3)} >>

Symmetry == Permutations(Workers)

=============================================================================
