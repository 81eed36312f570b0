---------------------------- MODULE ScoringRules ----------------------------
(*************************************************************************)
(* The deterministic verdict of a review: what the learner wrote, counted *)
(* in lexical units, against the goal.  A text is the number of its units *)
(* that stand in the goal, in the goal's title and in neither, whether it *)
(* holds one of the generic phrases, and whether it shares a meaningful   *)
(* term with the goal.  Texts that are joined add up.                     *)
(*************************************************************************)
EXTENDS Integers, FiniteSets

CONSTANTS
    GoalUnits,   \* units of the goal's text
    TitleUnits   \* units of the goal's title

ASSUME ScoringAssumption == GoalUnits \in Nat \ {0} /\ TitleUnits \in Nat

Text == [goal: Nat, title: Nat, new: Nat, filler: BOOLEAN, related: BOOLEAN]
NoText == [goal |-> 0, title |-> 0, new |-> 0, filler |-> FALSE, related |-> FALSE]

Join(s, t) ==
    [goal |-> s.goal + t.goal, title |-> s.title + t.title, new |-> s.new + t.new,
     filler |-> s.filler \/ t.filler, related |-> s.related \/ t.related]
-----------------------------------------------------------------------------
(* What is read off one text *)

Units(t) == t.goal + t.title + t.new
Smaller(m, n) == IF m <= n THEN m ELSE n

IsGeneric(t) == Units(t) < 9 \/ t.filler
HasSpecificAnswer(t) == Units(t) >= 5 /\ ~t.filler

\* The units a text shares with the goal, and with the goal under its title.
OfGoal(t) == Smaller(t.goal, GoalUnits)
OfWhole(t) == OfGoal(t) + Smaller(t.title, TitleUnits)

\* A near copy covers four fifths of its source and adds at most a fifth.
IsNearCopy(t, shared, size) ==
    Units(t) > 0 /\ 5 * shared >= 4 * size /\ 5 * (Units(t) - shared) <= Units(t)
RestatesGoal(t) ==
    \/ IsNearCopy(t, OfGoal(t), GoalUnits)
    \/ IsNearCopy(t, OfWhole(t), GoalUnits + TitleUnits)
HasNovelInformation(t) == 5 * (Units(t) - OfWhole(t)) > Units(t)

AddsLimitedSupport(t) ==
    /\ HasSpecificAnswer(t) /\ ~RestatesGoal(t)
    /\ HasNovelInformation(t) /\ t.related
IsSpecificAligned(t) == ~IsGeneric(t) /\ t.related
-----------------------------------------------------------------------------
(* The verdict on the texts of a session's evidence (one per text item, the   *)
(* narratives among them), the joined answers, and whether a check succeeded. *)

Verdict(status, score, understanding) ==
    [status |-> status, score |-> score, understanding |-> understanding]

Copied(texts) == {t \in texts : RestatesGoal(t)}
Independent(texts) == {t \in texts \ Copied(texts) : IsSpecificAligned(t)}
OnlyGeneric(texts, answer, checked) ==
    /\ texts # {} /\ \A t \in texts : IsGeneric(t)
    /\ ~HasSpecificAnswer(answer) /\ ~checked

Award(condition, points) == IF condition THEN points ELSE 0
Points(texts, answer) ==
    LET aligned == Independent(texts) # {}
        answered == HasSpecificAnswer(answer)
        goal == aligned \/ (answered /\ answer.related)
    IN  Verdict("none", 45 + Award(aligned, 12) + Award(goal, 8) + Award(answered, 10),
                8 + Award(aligned, 6) + Award(goal, 4) + Award(answered, 6))

ScoreSessionCopiesCount(submitted, texts, answer, checked) ==          \* mutant
    LET points == Points(texts, answer)
        score == Smaller(points.score, 82)
    IN  IF ~submitted THEN Verdict("InsufficientEvidence", 15, 0)
        ELSE Verdict(IF score >= 60 THEN "LikelyLearning" ELSE "WeakEvidence",
                     score, points.understanding)
ScoreSession(submitted, texts, answer, checked) ==
    LET points == Points(texts, answer)
        score == Smaller(points.score, 82)
    IN  CASE ~submitted -> Verdict("InsufficientEvidence", 15, 0)
          [] submitted /\ Copied(texts) # {} /\ Independent(texts) = {} ->
                IF AddsLimitedSupport(answer) THEN Verdict("WeakEvidence", 50, 10)
                ELSE Verdict("WeakEvidence", 35, 4)
          [] submitted /\ Copied(texts) = {} /\ OnlyGeneric(texts, answer, checked) ->
                Verdict("WeakEvidence", 35, 4)
          [] OTHER -> Verdict(IF score >= 60 THEN "LikelyLearning" ELSE "WeakEvidence",
                              score, points.understanding)

\* The six dimensions shown beside the score, each under its cap.
Between(low, n, high) == IF n < low THEN low ELSE Smaller(n, high)
Dimensions(v) ==
    [goalClarity |-> Between(5, v.score \div 8, 15),
     evidenceSpecificity |-> Smaller(v.score \div 4, 20),
     goalAlignment |-> Smaller(v.score \div 5, 20),
     understanding |-> Smaller(v.understanding, 25),
     output |-> Smaller(v.score \div 10, 10),
     reflection |-> Smaller(v.score \div 12, 10)]
=============================================================================
