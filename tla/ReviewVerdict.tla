---------------------------- MODULE ReviewVerdict ----------------------------
(*************************************************************************)
(* From the evidence of a session to its recorded verdict: the agent's    *)
(* checks and drafts in the native EventLog, the reading of the log that  *)
(* decides whether a review stands, the narratives made of the facts the  *)
(* images were found to show, the score, and the lineage of those facts   *)
(* that is written beside it and read back from the audit log.            *)
(*                                                                       *)
(* An event of the log is named by its position.  A fact's identity, a    *)
(* hash in the code, is what the hash is taken of.                        *)
(*************************************************************************)
EXTENDS EvidenceTools

CONSTANTS
    Notes, Links, Images,  \* evidence ids: texts, web pages, images
    Tools,                 \* the tools the agent is given
    Texts,                 \* what a learner may write
    Responses,             \* what the visual model may answer
    MaxEvidence,           \* bound: pieces of evidence
    MaxAnswers,            \* bound: answers
    MaxEvents,             \* bound: events of the log
    MaxRuns                \* bound: runs of the agent

Ids == Notes \cup Links \cup Images
Unknown == "unknown"    \* an id the agent made up

ASSUME VerdictAssumption ==
    /\ Texts \subseteq Text /\ Tools \subseteq {"text", "image", "url", "legacy"}
    /\ Unknown \notin Ids /\ Notes \cap Links = {} /\ Notes \cap Images = {} /\ Links \cap Images = {}
    /\ \A r \in Responses : r.form \in Forms /\ r.list \in Seq(VisualFacts \cup {Blank})

VARIABLES
    evidence, \* the session's evidence in the order it was stored
    answers,  \* the learner's answers
    log,      \* the native EventLog
    run,      \* what the review in progress has loaded, or none
    session,  \* learning_sessions: status, and the verdict the session shows
    scores,   \* audit events score.calculated
    reviews,  \* audit events review.completed
    told      \* the result of the last review request

verdictVars == <<evidence, answers, log, run, session, scores, reviews, told>>

NoRun == [busy |-> FALSE, evidence |-> <<>>, answers |-> <<>>, runs |-> 0]
NoVerdict == Verdict("none", 0, 0)

Question == [kind |-> "question"]
Reply == [kind |-> "answer"]
DraftEvent == [kind |-> "draft"]

VerdictInit ==
    /\ evidence = <<>> /\ answers = <<>> /\ log = <<>> /\ run = NoRun
    /\ session = [status |-> "running", verdict |-> NoVerdict]
    /\ scores = <<>> /\ reviews = <<>> /\ told = [status |-> "none", verdict |-> NoVerdict]
-----------------------------------------------------------------------------
(* Reading the log *)

OfKind(kind) == {i \in DOMAIN log : log[i].kind = kind}
Newest(S) == IF S = {} THEN 0 ELSE CHOOSE i \in S : \A j \in S : j <= i
Oldest(S) == CHOOSE i \in S : \A j \in S : i <= j

LastAnswer == Newest(OfKind("answer"))
StandingDrafts == {i \in OfKind("draft") : i > LastAnswer}
StandingQuestions == {i \in OfKind("question") : i > LastAnswer}

\* The checks a draft rests on: those since the draft before it.
WindowFromStart(d) == {i \in OfKind("check") : i < d}                 \* mutant
Window(d) ==
    {i \in OfKind("check") : i < d /\ i > Newest({j \in OfKind("draft") : j < d})}

Succeeded(i) == StatusRead(log[i]) = "success"
IsImage(e) == e \in Images

\* Every image has a successful check with three facts or more.
PolicyHolds(items, window) ==
    \A n \in DOMAIN items : IsImage(items[n].of) =>
        \E i \in window : /\ Succeeded(i) /\ log[i].tool = "image"
                          /\ log[i].of = items[n].of
                          /\ Len(log[i].facts) >= MinVisualFacts
-----------------------------------------------------------------------------
(* Narratives and their lineage *)

Fact(e, source, n, text) == <<e, source, n, text>>
Identities(e, source, facts) ==
    [n \in DOMAIN facts |-> [id |-> Fact(e, source, n, facts[n]), digest |-> facts[n]]]
InOrder(identities) == [n \in DOMAIN identities |-> identities[n].id]
Projection(e, source, identities) == <<e, source, InOrder(identities)>>

\* "Verified visual facts: " and the facts follow the explanation.
Heading == [NoText EXCEPT !.new = 3]
FactText(facts) == FoldLeft(LAMBDA t, f : Join(t, Words[f]), Heading, facts)

Usable(e, window) ==
    {i \in window : /\ Succeeded(i) /\ log[i].tool = "image" /\ log[i].of = e
                    /\ (log[i].facts # <<>> \/ log[i].explained # NoText)}
Narrative(e, window) ==
    LET i == Oldest(Usable(e, window))
    IN  [of |-> e, source |-> i, facts |-> Identities(e, i, log[i].facts),
         text |-> IF log[i].facts = <<>> THEN log[i].explained
                  ELSE Join(log[i].explained, FactText(log[i].facts))]
Narratives(items, window) ==
    LET narrated == At(items, {n \in DOMAIN items : IsImage(items[n].of) /\ Usable(items[n].of, window) # {}})
    IN  [n \in DOMAIN narrated |-> Narrative(narrated[n].of, window)]

\* The lineage of the narratives that consumed facts.
Lineage(narratives) ==
    LET consuming == At(narratives, {n \in DOMAIN narratives : narratives[n].facts # <<>>})
    IN  [k \in DOMAIN consuming |->
           [of |-> consuming[k].of, source |-> consuming[k].source,
            projection |-> Projection(consuming[k].of, consuming[k].source, consuming[k].facts),
            consumed |-> InOrder(consuming[k].facts), facts |-> consuming[k].facts]]
FactIds(item) == ToSet(item.consumed)
Consumed(lineage) == UNION {FactIds(lineage[k]) : k \in DOMAIN lineage}
Projections(lineage) == [k \in DOMAIN lineage |-> lineage[k].projection]
NoneTwice(lineage) == \A j, k \in DOMAIN lineage : j # k =>
    /\ lineage[j].projection # lineage[k].projection
    /\ FactIds(lineage[j]) \cap FactIds(lineage[k]) = {}
-----------------------------------------------------------------------------
(* Reading the lineage of a completed review back from the audit log *)

AgreesWithItself(item) ==                                              \* mutant
    /\ item.facts # <<>> /\ item.consumed = InOrder(item.facts)
    /\ item.projection = Projection(item.of, item.source, item.facts)
AgreesWithLog(item) ==
    /\ item.source \in OfKind("check")
    /\ log[item.source].tool = "image" /\ log[item.source].status = "success"
    /\ log[item.source].of = item.of
    /\ item.facts # <<>>
    /\ item.facts = Identities(item.of, item.source, log[item.source].facts)
    /\ item.consumed = InOrder(item.facts)
    /\ item.projection = Projection(item.of, item.source, item.facts)

\* Exactly one score and one review, of the last standing draft, whose facts
\* are those of the log and are each listed once.
ReadsBack(scored, reviewed) ==
    /\ Len(scored) = 1 /\ Len(reviewed) = 1 /\ StandingDrafts # {}
    /\ LET d == Newest(StandingDrafts)
           lineage == scored[1].lineage
       IN  /\ scored[1].id = d /\ scored[1].source = d
           /\ reviewed[1].id = d /\ reviewed[1].source = d
           /\ lineage # <<>>
           /\ \A k \in DOMAIN lineage : AgreesWithLog(lineage[k])
           /\ NoneTwice(lineage)
           /\ \A j, k \in DOMAIN lineage : lineage[j].source = lineage[k].source => j = k
           /\ scored[1].consumed = Consumed(lineage)
           /\ reviewed[1].score = scored[1].id
           /\ reviewed[1].projections = Projections(lineage)
-----------------------------------------------------------------------------
(* Extracting the result of a review from the log *)

JoinedAnswers(list) == FoldLeft(LAMBDA t, a : Join(t, a), NoText, list)

ScoreOf(items, given, window) ==
    LET narratives == Narratives(items, window)
        texts == {items[n].text : n \in {m \in DOMAIN items : items[m].of \in Notes}}
                    \cup {narratives[k].text : k \in DOMAIN narratives}
    IN  ScoreSession(items # <<>>, texts, JoinedAnswers(given), \E i \in window : Succeeded(i))

Awaits == StandingQuestions # {} /\ Newest(StandingQuestions) > Newest(StandingDrafts)

\* The question, the draft or the failure that a run's log comes to.
Outcome(items) ==
    CASE Awaits -> "awaiting_user"
      [] ~Awaits /\ StandingDrafts # {} ->
            IF PolicyHolds(items, Window(Newest(StandingDrafts))) THEN "completed" ELSE "failed"
      [] OTHER -> "failed"

Tell(status, verdict) == told' = [status |-> status, verdict |-> verdict]
Shown(status, verdict) == session' =
    IF session.status = "reviewed" THEN session ELSE [status |-> status, verdict |-> verdict]
Recorded(events, id) == \E n \in DOMAIN events : events[n].id = id

PersistFirstDraft(items, given) ==                                    \* mutant
    LET d == Oldest(StandingDrafts)
        verdict == ScoreOf(items, given, Window(d))
        lineage == Lineage(Narratives(items, Window(d)))
    IN  /\ NoneTwice(lineage)
        /\ IF Recorded(scores, d) THEN UNCHANGED <<scores, reviews, session>>
           ELSE /\ scores' = Append(scores,
                       [id |-> d, source |-> d, verdict |-> verdict, given |-> given,
                        items |-> items, lineage |-> lineage, consumed |-> Consumed(lineage)])
                /\ reviews' = Append(reviews,
                       [id |-> d, source |-> d, score |-> d, projections |-> Projections(lineage)])
                /\ Shown("reviewed", verdict)
        /\ Tell("completed", verdict)

\* One transaction: the review row, the score event and the review event, each
\* only once for a draft.
PersistReview(items, given) ==
    LET d == Newest(StandingDrafts)
        verdict == ScoreOf(items, given, Window(d))
        lineage == Lineage(Narratives(items, Window(d)))
    IN  /\ NoneTwice(lineage)
        /\ IF Recorded(scores, d) THEN UNCHANGED <<scores, reviews, session>>
           ELSE /\ scores' = Append(scores,
                       [id |-> d, source |-> d, verdict |-> verdict, given |-> given,
                        items |-> items, lineage |-> lineage, consumed |-> Consumed(lineage)])
                /\ reviews' = Append(reviews,
                       [id |-> d, source |-> d, score |-> d, projections |-> Projections(lineage)])
                /\ Shown("reviewed", verdict)
        /\ Tell("completed", verdict)

Extract(items, given) ==
    CASE Outcome(items) = "awaiting_user" ->
            /\ Shown("awaiting_user", NoVerdict) /\ Tell("awaiting_user", NoVerdict)
            /\ UNCHANGED <<scores, reviews>>
      [] Outcome(items) = "completed" -> PersistReview(items, given)
      [] OTHER -> Tell("failed", NoVerdict) /\ UNCHANGED <<scores, reviews, session>>
-----------------------------------------------------------------------------
(* The learner *)

Stored(e) == \E n \in DOMAIN evidence : evidence[n].of = e

\* Texts and links wait for the session's lock; an image is referenced without it.
SubmitEvidence(e, t) ==
    /\ ~Stored(e) /\ Len(evidence) < MaxEvidence /\ session.status # "reviewed"
    /\ (run.busy => IsImage(e))
    /\ evidence' = Append(evidence, [of |-> e, text |-> t])
    /\ UNCHANGED <<answers, log, run, session, scores, reviews, told>>

Answer(t) ==
    /\ ~run.busy /\ session.status = "awaiting_user"
    /\ Len(answers) < MaxAnswers /\ Len(log) < MaxEvents
    /\ answers' = Append(answers, t) /\ log' = Append(log, Reply)
    /\ UNCHANGED <<evidence, run, session, scores, reviews, told>>
-----------------------------------------------------------------------------
(* A review: what stands in the log already is enough, or the agent runs *)

Load == [busy |-> TRUE, evidence |-> evidence, answers |-> answers, runs |-> run.runs + 1]

ReviewAgain ==                                                         \* mutant
    /\ ~run.busy
    /\ IF Outcome(evidence) # "failed"
       THEN Extract(evidence, answers) /\ UNCHANGED run
       ELSE /\ run.runs < MaxRuns /\ run' = Load
            /\ UNCHANGED <<session, scores, reviews, told>>
    /\ UNCHANGED <<evidence, answers, log>>
Review ==
    /\ ~run.busy
    /\ IF session.status = "reviewed"
       THEN Tell("completed", session.verdict) /\ UNCHANGED <<run, session, scores, reviews>>
       ELSE IF Outcome(evidence) # "failed"
       THEN Extract(evidence, answers) /\ UNCHANGED run
       ELSE /\ run.runs < MaxRuns /\ run' = Load
            /\ UNCHANGED <<session, scores, reviews, told>>
    /\ UNCHANGED <<evidence, answers, log>>

Observe(event) ==
    /\ run.busy /\ Len(log) < MaxEvents
    /\ log' = Append(log, event)
    /\ UNCHANGED <<evidence, answers, run, session, scores, reviews, told>>

\* The agent checks the evidence, or an id it made up, with any tool.
Named == {Unknown} \cup {evidence[n].of : n \in DOMAIN evidence}
ContentOf(e) == evidence[CHOOSE n \in DOMAIN evidence : evidence[n].of = e].text

ImageReadings(e) == IF Stored(e) /\ IsImage(e) THEN Readings \ {"missing"} ELSE {"missing"}
FactsNamed == {Inspect(first, second) : first, second \in Responses}
LinkStatuses(e) ==
    CASE ~Stored(e) -> {"failed"}
      [] Stored(e) /\ e \notin Links -> {"unsupported"}
      [] OTHER -> {"success", "failed", "inconclusive", "unsupported"}
Observations(tool, e) ==
    CASE tool = "text" -> {CheckText(e, Stored(e), e \in Notes)}
      [] tool = "image" -> ImageChecks(e, ImageReadings(e),
                              IF Stored(e) THEN ContentOf(e) ELSE NoText, FactsNamed)
      [] tool = "url" -> {NothingSeen("url", e, status) : status \in LinkStatuses(e)}
      [] tool = "legacy" /\ Stored(e) -> {NothingSeen("legacy", e, "success")}
      [] OTHER -> {}
Look(tool, e) == \E event \in Observations(tool, e) : Observe(event)
AskLearner == Observe(Question)
SubmitDraft == Observe(DraftEvent)

EndRun ==
    /\ run.busy /\ Extract(run.evidence, run.answers)
    /\ run' = [NoRun EXCEPT !.runs = run.runs]
    /\ UNCHANGED <<evidence, answers, log>>

\* A timeout or an error of the provider: the log keeps what was written.
RunFails ==
    /\ run.busy /\ run' = [NoRun EXCEPT !.runs = run.runs]
    /\ Tell("failed", NoVerdict)
    /\ UNCHANGED <<evidence, answers, log, session, scores, reviews>>

VerdictNext ==
    \/ \E e \in Notes \cup Images, t \in Texts : SubmitEvidence(e, t)
    \/ \E e \in Links : SubmitEvidence(e, NoText)
    \/ \E t \in Texts : Answer(t)
    \/ \E tool \in Tools, e \in Named : Look(tool, e)
    \/ Review \/ AskLearner \/ SubmitDraft \/ EndRun \/ RunFails

VerdictSpec == VerdictInit /\ [][VerdictNext]_verdictVars
-----------------------------------------------------------------------------
(* Properties *)

\* A verdict on images rests on facts of every one of them: three or more, that the
\* image tool saw in that image after the draft before the one under review.
ImagesAreNarrated ==
    \A n \in DOMAIN scores : \A m \in DOMAIN scores[n].items :
        LET e == scores[n].items[m].of IN
        IsImage(e) => \E k \in DOMAIN scores[n].lineage :
            LET item == scores[n].lineage[k] IN
            /\ item.of = e /\ Cardinality(FactIds(item)) >= MinVisualFacts
            /\ item.source < scores[n].source
            /\ log[item.source].of = e /\ log[item.source].status = "success"
            /\ \A i \in OfKind("draft") : i < item.source \/ i >= scores[n].source

\* The lineage a review wrote is one that the reader of the lineage accepts.
LineageReadsBack ==
    scores # <<>> /\ scores[1].lineage # <<>> => ReadsBack(scores, reviews)

\* A score event with line k of its lineage naming another check, another image or another
\* fact; with the line cut, turned round or written twice; with the line made up.
Misnamed(s, k) ==
    {[s EXCEPT !.lineage[k].source = i] : i \in DOMAIN log}
    \cup {[s EXCEPT !.lineage[k].of = e] : e \in Ids}
    \cup {[s EXCEPT !.lineage[k].facts[1].digest = f] : f \in VisualFacts}
Misplaced(s, k) ==
    {[s EXCEPT !.lineage[k].facts = Tail(@)], [s EXCEPT !.lineage[k].consumed = Tail(@)],
     [s EXCEPT !.lineage[k].facts = Reverse(@), !.lineage[k].consumed = Reverse(@)],
     [s EXCEPT !.lineage = Append(@, s.lineage[k])]}
MadeUp(s, k, i, f) ==
    LET facts == Identities(s.lineage[k].of, i, <<f>>)
    IN  [s EXCEPT !.lineage[k] = [@ EXCEPT !.source = i, !.facts = facts, !.consumed = InOrder(facts),
                                           !.projection = Projection(s.lineage[k].of, i, facts)],
                  !.consumed = {Fact(s.lineage[k].of, i, 1, f)}]

\* What a score event would be with one thing about its facts changed.
Altered(s) ==
    {[s EXCEPT !.consumed = @ \ {f}] : f \in s.consumed}
    \cup UNION {Misnamed(s, k) \cup Misplaced(s, k) \cup {MadeUp(s, k, i, f) : i \in DOMAIN log, f \in VisualFacts}
                : k \in DOMAIN s.lineage}

\* A score event with any one of its facts changed is not accepted.
AlteredIsRefused ==
    \A n \in DOMAIN scores : \A s \in Altered(scores[n]) \ {scores[n]} :
        LET projected == [reviews EXCEPT ![n].projections = Projections(s.lineage)]
        IN  ~ReadsBack(<<s>>, reviews) /\ ~ReadsBack(<<s>>, projected)

\* A learning is likely exactly if something earned it: a specific text about the goal
\* (or an explanation and its facts) that does not restate it, or, when no text restates
\* it, a specific answer about the goal.
LikelyIffEarned ==
    \A n \in DOMAIN scores :
        LET s == scores[n]
            notes == {s.items[m].text : m \in {i \in DOMAIN s.items : s.items[i].of \in Notes}}
            seen == {Join(log[s.lineage[k].source].explained,
                          FactText(log[s.lineage[k].source].facts)) : k \in DOMAIN s.lineage}
            answer == JoinedAnswers(s.given)
        IN  s.verdict.status = "LikelyLearning" <=>
                \/ \E t \in notes \cup seen :
                      ~RestatesGoal(t) /\ ~(Units(t) < 9) /\ ~t.filler /\ t.related
                \/ /\ s.items # <<>> /\ \A t \in notes \cup seen : ~RestatesGoal(t)
                   /\ Units(answer) >= 5 /\ ~answer.filler /\ answer.related

\* The verdict a review request is told is the one the session and the audit log keep.
ToldIsRecorded ==
    told.status = "completed" =>
        /\ session.status = "reviewed" /\ told.verdict = session.verdict
        /\ scores # <<>> /\ told.verdict = scores[1].verdict

\* The record of a review is exact: what was written is accepted by its reader, what was
\* altered is not, and what the client is told is what was written.
RecordIsExact == LineageReadsBack /\ AlteredIsRefused /\ ToldIsRecorded
=============================================================================
