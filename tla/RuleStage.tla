----------------------------- MODULE RuleStage -----------------------------
(***************************************************************************)
(* Stages 8 and 9 of the pipeline: what the rules say of a document and    *)
(* where it goes on the strength of it.                                    *)
(*                                                                         *)
(* Three engines sit in that seat: packages/rules behind the adapter of    *)
(* the server ("server") or of the command line ("command"), and the one   *)
(* packages/ingest brings along ("builtin").  A leaf of a condition is a   *)
(* matcher, which says yes, no, or that it ran into a limit and does not   *)
(* know.  Tags and collections, which only add up, are left out; so are    *)
(* disabled rules, which the store does not hand over, and the rules of    *)
(* the built-in engine whose checks without a pattern fail.                *)
(***************************************************************************)
EXTENDS Integers, Sequences, SequencesExt

CONSTANTS RuleSets,   \* [engine, mode, rules]
          Leaves,
          MaxNesting  \* MAX_CONDITION_DEPTH

ASSUME RulesSetup == /\ MaxNesting \in Nat
                     /\ \A s \in RuleSets : /\ s.engine \in {"server", "command", "builtin"}
                                            /\ s.mode \in {"all-match", "first-match"}
                                            /\ s.mode = "first-match" => s.engine = "command"

VARIABLES
  ruleSet,
  verdict,  \* verdict[leaf]: "yes", "no" or "unknown"
  sure,     \* the ledger's score reaches the threshold
  traced,   \* [rule, outcome, wishes] of the rules considered
  draft,    \* what the rules have asked for
  over,     \* no rule after these is reached
  route     \* "" yet, "filed", "stopped", or the reason of the review entry

ruleVars == <<ruleSet, verdict, sure, traced, draft, over, route>>

Unset == ""
Fields == {"itemType", "confidence"}
NoDraft == [setting |-> [f \in Fields |-> Unset], conflicts |-> {}, review |-> FALSE,
            stopped |-> FALSE, refused |-> FALSE]

-----------------------------------------------------------------------------
(* Conditions: packages/rules/src/engine.ts *)

\* What evaluating a condition shows; captures are harvested only outside a "not".
RECURSIVE Tried(_, _)
Tried(c, depth) ==
  IF depth > MaxNesting THEN [matched |-> FALSE, undecided |-> TRUE, captured |-> {}]
  ELSE CASE c.kind = "leaf" -> [matched |-> verdict[c.leaf] = "yes",
                                undecided |-> verdict[c.leaf] = "unknown",
                                captured |-> IF verdict[c.leaf] = "yes" THEN {c.leaf} ELSE {}]
         [] c.kind = "not" -> LET child == Tried(c.of, depth + 1)
                              IN [matched |-> ~child.matched /\ ~child.undecided,
                                  undecided |-> child.undecided, captured |-> {}]
         [] c.kind \in {"all", "any"} ->
              LET all == c.kind = "all"
                  members == [i \in DOMAIN c.of |-> Tried(c.of[i], depth + 1)]
                  settled == SelectInSeq(members, LAMBDA m : m.undecided \/ m.matched # all)
                  children == IF settled = 0 THEN members ELSE SubSeq(members, 1, settled)
                  undecided == \E i \in DOMAIN children : children[i].undecided
              IN [matched |-> ~undecided /\ IF all THEN \A i \in DOMAIN children : children[i].matched
                                                   ELSE \E i \in DOMAIN children : children[i].matched,
                  undecided |-> undecided,
                  captured |-> UNION {children[i].captured : i \in DOMAIN children}]

\* The built-in engine asks every clause, whatever the others said.
Clauses(rule) == {rule.when.of[i].leaf : i \in DOMAIN rule.when.of}
AllTried(rule) ==
  [matched |-> \A l \in Clauses(rule) : verdict[l] = "yes",
   undecided |-> \E l \in Clauses(rule) : verdict[l] = "unknown", captured |-> {}]

-----------------------------------------------------------------------------
(* Actions: ingestion/facet.ts, ingestion/outcome.ts *)

\* A value whose placeholder no condition captured is skipped, and so is the review whose
\* explanation has one.
CanApply(action, captured) == action.needs \subseteq captured

\* Mutant: the old value is compared when it has been overwritten.
OverwrittenFirst(d, action) == [d EXCEPT !.setting[action.field] = action.value]

Overwritten(d, action) ==
  [d EXCEPT !.setting[action.field] = action.value,
            !.conflicts = IF d.setting[action.field] \in {Unset, action.value} THEN @
                          ELSE @ \cup {action.field}]

\* The built-in engine keeps the value of the rule that came first.
KeptFirst(d, action) ==
  IF d.setting[action.field] = Unset THEN Overwritten(d, action)
  ELSE [d EXCEPT !.conflicts = Overwritten(d, action).conflicts]

Applied(d, action, captured) ==
  CASE d.stopped /\ ruleSet.engine # "builtin" -> d
    [] ~CanApply(action, captured) -> d
    [] action.type = "set" -> IF ruleSet.engine = "builtin" THEN KeptFirst(d, action) ELSE Overwritten(d, action)
    [] action.type = "review" -> [d EXCEPT !.review = TRUE]
    [] action.type = "stop" -> [d EXCEPT !.stopped = TRUE]

\* The values the rule asks for before anything stops it.
Wishes(rule, captured) ==
  {<<a.field, a.value>> : a \in {rule.then[i] : i \in {j \in DOMAIN rule.then :
      /\ rule.then[j].type = "set" /\ CanApply(rule.then[j], captured)
      /\ \A k \in 1 .. j - 1 : rule.then[k].type # "stop"}}}

-----------------------------------------------------------------------------
(* Stages *)

\* Priority first; then the order they were written in, which for stored rules is that of their
\* ids, as it is for the built-in engine.
Ordered ==
  LET rules == ruleSet.rules
      first(i, j) == \/ rules[i].priority > rules[j].priority
                     \/ rules[i].priority = rules[j].priority /\ i < j
      order == SortSeq([i \in DOMAIN rules |-> i], first)
  IN [i \in DOMAIN order |-> rules[order[i]]]

Consider ==
  /\ route = "" /\ ~over /\ Len(traced) < Len(Ordered)
  /\ LET rule == Ordered[Len(traced) + 1]
         tried == IF ruleSet.engine = "builtin" THEN AllTried(rule) ELSE Tried(rule.when, 1)
         matched == tried.matched /\ ~tried.undecided
         after == FoldLeft(LAMBDA d, a : Applied(d, a, tried.captured), draft, rule.then)
     IN /\ traced' = Append(traced,
             [rule |-> rule,
              outcome |-> IF tried.undecided THEN "error" ELSE IF matched THEN "matched" ELSE "not-matched",
              wishes |-> IF matched THEN Wishes(rule, tried.captured) ELSE {}])
        /\ draft' = IF matched THEN after ELSE [draft EXCEPT !.refused = @ \/ tried.undecided]
        /\ over' = IF ruleSet.engine = "builtin" THEN matched /\ rule.last
                   ELSE draft'.stopped \/ (matched /\ ruleSet.mode = "first-match")
  /\ UNCHANGED <<ruleSet, verdict, sure, route>>

\* The command line's adapter lets precedence decide and reports no conflict; neither adapter
\* hands on what could not be decided.
Reported == [conflicts |-> IF ruleSet.engine = "command" THEN {} ELSE draft.conflicts,
             refused |-> draft.refused /\ ruleSet.engine = "builtin"]

\* Stage 9.  A rule that sets the confidence lands the score where it says.
Confident == IF draft.setting["confidence"] = Unset THEN sure ELSE draft.setting["confidence"] = "high"

Dispatch ==
  /\ route = "" /\ (over \/ Len(traced) = Len(Ordered))
  /\ route' = IF draft.stopped THEN "stopped"
              ELSE IF draft.review THEN "asked"
              ELSE IF Reported.conflicts # {} THEN "rule_conflict"
              ELSE IF Reported.refused THEN "rule_unevaluable"
              ELSE IF ~Confident THEN "low_confidence"
              ELSE "filed"
  /\ UNCHANGED <<ruleSet, verdict, sure, traced, draft, over>>

RulesInit == /\ ruleSet \in RuleSets /\ verdict \in [Leaves -> {"yes", "no", "unknown"}]
             /\ sure \in BOOLEAN
             /\ traced = <<>> /\ draft = NoDraft /\ over = FALSE /\ route = ""

RulesNext == Consider \/ Dispatch

-----------------------------------------------------------------------------
(* Properties *)

RulesTypeOK ==
  /\ DOMAIN draft.setting = Fields /\ draft.conflicts \subseteq Fields
  /\ {draft.review, draft.stopped, draft.refused, sure, over} \subseteq BOOLEAN
  /\ route \in {"", "filed", "stopped", "asked", "rule_conflict", "rule_unevaluable", "low_confidence"}

\* What a condition comes to if every leaf says yes or no.
RECURSIVE Truth(_, _)
Truth(c, world) ==
  CASE c.kind = "leaf" -> world[c.leaf]
    [] c.kind = "not" -> ~Truth(c.of, world)
    [] c.kind = "all" -> \A i \in DOMAIN c.of : Truth(c.of[i], world)
    [] c.kind = "any" -> \E i \in DOMAIN c.of : Truth(c.of[i], world)

Worlds == {w \in [Leaves -> BOOLEAN] : \A l \in Leaves : /\ verdict[l] = "yes" => w[l]
                                                         /\ verdict[l] = "no" => ~w[l]}

\* A rule is said to match, or not to, only where what could not be decided makes no difference,
\* however deep in its condition that is.
VerdictsAreCertain ==
  \A i \in DOMAIN traced : traced[i].outcome # "error" =>
    \A w \in Worlds : Truth(traced[i].rule.when, w) = (traced[i].outcome = "matched")

\* A document is filed as its rules say only where they say one thing and none of them asked for a
\* person or could not be decided.  The command line lets precedence decide, and neither adapter of
\* packages/rules passes on what was undecided.
FiledUnopposed ==
  route = "filed" =>
    /\ \A i \in DOMAIN traced : \A w \in traced[i].wishes :
         ruleSet.engine # "command" => draft.setting[w[1]] = w[2]
    /\ \A i \in DOMAIN traced : traced[i].outcome = "matched" =>
         \A j \in DOMAIN traced[i].rule.then :
           LET a == traced[i].rule.then[j] IN a.type = "set" \/ a.needs # {}
    /\ ruleSet.engine = "builtin" => \A i \in DOMAIN traced : traced[i].outcome # "error"
    /\ ruleSet.engine = "command" => \* the last rule to say so has its way
         \A f \in Fields : LET said == {i \in DOMAIN traced : \E w \in traced[i].wishes : w[1] = f}
                           IN said # {} => \E i \in said : /\ <<f, draft.setting[f]>> \in traced[i].wishes
                                                           /\ \A j \in said : j <= i

\* Every rule's verdict is certain, and no document is filed over a rule's objection.
RulesAreHeeded == RulesTypeOK /\ VerdictsAreCertain /\ FiledUnopposed
=============================================================================
