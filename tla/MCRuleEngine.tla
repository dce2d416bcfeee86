----------------------------- MODULE MCRuleEngine -----------------------------
(***************************************************************************)
(* Rule files for RuleEngine, after rules/09_grouping.xml and the          *)
(* integration tests of ctguard-research.                                  *)
(***************************************************************************)
EXTENDS RuleEngine, TLC

Rule(id, priority) ==
  [id |-> id, priority |-> priority, always |-> FALSE, groups |-> {}, kinds |-> {}, broken |-> {},
   parents |-> <<>>, ifGroup |-> None, act |-> [group |-> None, time |-> 0, rate |-> 0, reset |-> FALSE],
   same |-> FALSE, unless |-> [id |-> 0, timeout |-> 0]]

Activation(group, time, rate, reset) == [group |-> group, time |-> time, rate |-> rate, reset |-> reset]
UnlessRule(id, timeout) == [id |-> id, timeout |-> timeout]

\* rules/09_grouping.xml: failures, failures followed by a success, failures of
\* one source with reset, and an exception to the last rule.
Grouping ==
  << [Rule(1, 2) EXCEPT !.kinds = {"failure"}, !.groups = {"failures"}],
     [Rule(2, 1) EXCEPT !.kinds = {"success"}, !.groups = {"successes"}],
     [Rule(3, 5) EXCEPT !.act = Activation("failures", 1, 3, FALSE)],
     [Rule(4, 5) EXCEPT !.ifGroup = "successes", !.act = Activation("failures", 2, 2, TRUE)],
     [Rule(5, 6) EXCEPT !.act = Activation("failures", 1, 2, TRUE), !.same = TRUE],
     [Rule(6, 0) EXCEPT !.parents = <<5>>, !.kinds = {"failure"}, !.always = TRUE] >>

\* itests/research/test3: no success after a failure, with a rule below the
\* first one that has a timer, too, and a low priority.
Timers ==
  << [Rule(1, 4) EXCEPT !.kinds = {"failure"}],
     [Rule(2, 4) EXCEPT !.kinds = {"success"}],
     [Rule(3, 8) EXCEPT !.parents = <<1>>, !.unless = UnlessRule(2, 1)],
     [Rule(4, 4) EXCEPT !.parents = <<1, 2>>, !.kinds = {"failure"}],
     [Rule(5, 1) EXCEPT !.parents = <<4>>, !.unless = UnlessRule(2, 1)] >>

\* A timer and a group in one rule, and a rule below the one that stops the timer.
GroupTimer ==
  << [Rule(1, 4) EXCEPT !.kinds = {"failure"}, !.groups = {"failures"}],
     [Rule(2, 4) EXCEPT !.kinds = {"success"}],
     [Rule(3, 8) EXCEPT !.parents = <<1>>, !.unless = UnlessRule(2, 1),
                        !.act = Activation("failures", 2, 2, FALSE)],
     [Rule(4, 4) EXCEPT !.parents = <<2>>, !.kinds = {"success"}] >>

\* A rule that stops a timer and has a copy below each of two others.
Copies ==
  << [Rule(1, 4) EXCEPT !.kinds = {"failure"}],
     [Rule(2, 4) EXCEPT !.kinds = {"success"}],
     [Rule(3, 4) EXCEPT !.kinds = {"other"}],
     [Rule(4, 4) EXCEPT !.parents = <<2, 3>>],
     [Rule(5, 8) EXCEPT !.parents = <<1>>, !.unless = UnlessRule(4, 1)] >>

\* Two rules with patterns that are none, one of them with a group, and a rule
\* with the largest id and no priority.
Unchecked ==
  << [Rule(1, 4) EXCEPT !.kinds = {"failure"}, !.groups = {"failures"}],
     [Rule(2, 4) EXCEPT !.kinds = {"success"}],
     [Rule(3, 4) EXCEPT !.act = Activation("failures", 2, 2, FALSE), !.ifGroup = "failures"],
     [Rule(4, 6) EXCEPT !.parents = <<3>>, !.kinds = {"failure"}, !.broken = {"failure"}],
     [Rule(5, 6) EXCEPT !.act = Activation("failures", 2, 2, FALSE), !.broken = {"success"}],
     [Rule(MaxId, 0) EXCEPT !.kinds = {"other"}] >>

CONSTANTS x, y

Events(kinds, fields) == [kind : kinds, field : fields]
Sources == Events({"failure"}, {x, y, NoField}) \cup Events({"success"}, {NoField})

\* No rule names a value of the field.
MCSymmetry == Permutations({x, y})

MCInputs == (Grouping :> Sources)
         @@ (Timers :> Events({"failure", "success"}, {NoField}))
         @@ (GroupTimer :> Sources)
         @@ (Copies :> Events({"failure", "success", "other"}, {NoField}))
         @@ (Unchecked :> Events({"failure", "success", "other"}, {NoField}))

MCRuleFiles == DOMAIN MCInputs
=============================================================================
