-------------------------- MODULE MCReviewVerdict --------------------------
(* ReviewVerdict on small instances: the bounds are in the .cfg files. *)
EXTENDS ReviewVerdict

CONSTANTS n1, i1, i2, f1, f2, f3

\* A goal of ten units under a title of three: a copy of it with the largest addition that
\* is still a copy, the smallest text that is none, and one that is too short to be
\* evidence and long enough to be an answer.
Written(goal, new, filler) ==
    [goal |-> goal, title |-> 0, new |-> new, filler |-> filler, related |-> goal > 0]
SomeTexts == {Written(8, 2, FALSE), Written(8, 3, FALSE), Written(1, 4, FALSE)}
Unrelated == [f \in VisualFacts |-> Written(0, 1, FALSE)]
Answered(form, list) == [form |-> form, list |-> list]
Replies == {Answered("list", <<f1, f2, f3>>), Answered("no_response", <<>>),
            Answered("list", <<f1, Blank, f1, f2, f2, f1, f1, f1, f3>>)}
Symmetry == Permutations({i1, i2})
=============================================================================
