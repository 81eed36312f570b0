---------------------------- MODULE EvidenceTools ----------------------------
(*************************************************************************)
(* The agent's verification tools and the shape of what they observe.     *)
(* A tool is given an evidence id and nothing else: it reads the evidence *)
(* from the repository, and the image tool also asks the visual model for *)
(* facts, once more if it named too few.                                  *)
(*************************************************************************)
EXTENDS ScoringRules, Sequences, SequencesExt

CONSTANTS
    VisualFacts,  \* the facts a model may name, as normalised strings
    Words         \* the text a fact is, for every visual fact

ASSUME ToolsAssumption == Words \in [VisualFacts -> Text]

Blank == "blank"           \* a string of white space in the model's list
ASSUME BlankAssumption == Blank \notin VisualFacts

MinVisualFacts == 3
MaxVisualFacts == 8

Observed(tool, e, status, facts, explained) ==
    [kind |-> "check", tool |-> tool, of |-> e, status |-> status,
     facts |-> facts, explained |-> explained]
NothingSeen(tool, e, status) == Observed(tool, e, status, <<>>, NoText)
-----------------------------------------------------------------------------
(* The image tool *)

\* What reading the image from the repository comes to, and the observation's
\* status when it is not there, not this session's, not ready or not whole.
Readings == {"read", "missing", "denied", "not_ready", "changed", "unavailable"}
ReadFailure(reading) ==
    IF reading \in {"missing", "denied", "changed"} THEN "failed" ELSE "inconclusive"

\* A response holds a list of strings, or there is something wrong with it.
Forms == {"list", "no_response", "empty", "non_json", "invalid_schema"}

\* The elements of s at the positions in S, in their order.
At(s, S) ==
    LET Rank(i) == Cardinality({j \in S : j <= i})
    IN  [k \in 1..Cardinality(S) |-> s[CHOOSE i \in S : Rank(i) = k]]

\* The first eight strings, without blanks and repetitions.
Parse(list) ==
    LET kept == SubSeq(list, 1, Smaller(Len(list), MaxVisualFacts))
        first == {i \in DOMAIN kept :
                    kept[i] # Blank /\ \A j \in 1..(i - 1) : kept[j] # kept[i]}
    IN  At(kept, first)

Enough(r) == r.form = "list" /\ Len(Parse(r.list)) >= MinVisualFacts

\* Too few facts are asked for again, once; no facts means the inspection failed.
Inspect(first, second) ==
    CASE first.form # "list" -> <<>>
      [] Enough(first) -> Parse(first.list)
      [] OTHER -> IF Enough(second) THEN Parse(second.list) ELSE <<>>

\* The observations an image may come to, under the lists of facts the model may name.
ImageChecks(e, readings, explanation, named) ==
    {NothingSeen("image", e, ReadFailure(r)) : r \in readings \ {"read"}}
    \cup IF "read" \in readings
         THEN {NothingSeen("image", e, "inconclusive")}     \* no model that sees
              \cup {IF facts = <<>> THEN NothingSeen("image", e, "inconclusive")
                    ELSE Observed("image", e, "success", facts, explanation) : facts \in named}
         ELSE {}
-----------------------------------------------------------------------------
(* The text tool: a status, and weak signals that no verdict reads *)

WeakSignals(t) ==
    (IF Units(t) < 9 THEN {"text_too_short"} ELSE {})
        \cup (IF t.filler THEN {"generic_learning_claim"} ELSE {})
CheckText(e, found, isText) ==
    CASE ~found -> NothingSeen("text", e, "failed")
      [] found /\ ~isText -> NothingSeen("text", e, "unsupported")
      [] OTHER -> NothingSeen("text", e, "success")

\* What the review reads of an observation: a status outside the three it knows
\* is inconclusive, and so is every observation of the legacy tool.
StatusRead(event) ==
    IF event.tool # "legacy" /\ event.status \in {"success", "failed", "inconclusive"}
    THEN event.status ELSE "inconclusive"
=============================================================================
