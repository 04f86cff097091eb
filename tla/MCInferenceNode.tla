-------------------------- MODULE MCInferenceNode --------------------------
(* Two versions of the rules file beside the built-in rules, of which one  *)
(* has a keyword with a capital, and prompts that tell them apart.         *)
EXTENDS InferenceNode

Rule(keywords, decision) == [keywords |-> keywords, decision |-> decision]

Builtin == <<Rule({"error"}, "CRITICAL"), Rule({"valve"}, "WARNING")>>

RulesOf(content) ==
  CASE content = "first"   -> <<Rule({"valve"}, "CRITICAL")>>
    [] content = "second"  -> <<Rule({"Error"}, "CRITICAL"), Rule({"valve"}, "NORMAL")>>
    [] content = "builtin" -> Builtin

LowerCase(w) == IF w = "Error" THEN "error" ELSE w

SomePrompts == {{"Error", "valve"}}
=============================================================================
