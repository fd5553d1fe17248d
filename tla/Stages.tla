------------------------------- MODULE Stages -------------------------------
(***************************************************************************)
(* Parts of the pipeline's stages that share no state: what becomes of an  *)
(* archive at stage 2, how a pattern is matched, and what the rules make   *)
(* of the matchers' answers at stages 8 and 9.  One of them runs; the      *)
(* others stay as they were made.                                          *)
(***************************************************************************)
EXTENDS ArchiveExpansion, RegexMachine, RuleStage

VARIABLE stage

stageVars == <<stage, vars, regexVars, ruleVars>>

NothingToMatch == /\ pattern = [kind |-> "empty"] /\ text = <<>>
                  /\ multiline = FALSE /\ budget = Max(Budgets)

NothingToDecide == /\ ruleSet = CHOOSE s \in RuleSets : TRUE
                   /\ verdict = [l \in Leaves |-> "yes"] /\ sure = TRUE

StagesInit ==
  /\ stage \in {"archive", "match", "rules"}
  /\ stage = "match" \/ NothingToMatch
  /\ stage = "rules" \/ NothingToDecide
  /\ Init /\ RegexInit /\ RulesInit

StagesNext ==
  /\ UNCHANGED stage
  /\ \/ stage = "archive" /\ Next /\ UNCHANGED <<regexVars, ruleVars>>
     \/ stage = "match" /\ RegexNext /\ UNCHANGED <<vars, ruleVars>>
     \/ stage = "rules" /\ RulesNext /\ UNCHANGED <<vars, regexVars>>

StagesSpec == StagesInit /\ [][StagesNext]_stageVars

-----------------------------------------------------------------------------
(* Properties *)

\* A pattern matches what it means, within linear work: MatchIsRight and
\* WorkIsLinear of patterns.
MatchIsRightInTime == MatchIsRight /\ WorkIsLinear
=============================================================================
