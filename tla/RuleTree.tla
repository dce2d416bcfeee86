------------------------------- MODULE RuleTree -------------------------------
(***************************************************************************)
(* The rules of ctguard-research as parse_rules leaves them: which rule    *)
(* files are accepted, and the two trees, of standard and of group rules,  *)
(* that a file becomes.                                                    *)
(*                                                                         *)
(* A rule is a record                                                      *)
(*   id, priority, always  -- id, priority, always_alert                   *)
(*   groups                -- the groups it adds to an event               *)
(*   kinds                 -- the kinds of events its regex, if_field and  *)
(*                            if_trait accept ({}: it has none of them)    *)
(*   broken                -- the kinds of events for which check_rule gets *)
(*                            to a pattern of if_field or if_trait that is *)
(*                            no regex                                     *)
(*   parents               -- if_rule, a sequence of ids                   *)
(*   ifGroup               -- if_group (None, Always or a group)           *)
(*   act                   -- activation_group: group (None: there is      *)
(*                            none), time, rate, reset                     *)
(*   same                  -- whether there is a same_field                *)
(*   unless                -- unless_rule: id (0: there is none), timeout  *)
(*                                                                         *)
(* A file is a sequence of rules.  A tree is the sequence of the paths to  *)
(* its nodes, in the order in which find_rule visits them; a path is the   *)
(* sequence of the ids from the top to the node.                           *)
(***************************************************************************)
EXTENDS Naturals, Sequences, SequencesExt

None   == "none"
Always == "!ALWAYS"

HasUnless(r)     == r.unless.id # 0
HasActivation(r) == r.act.group # None
IsGroupRule(r)   == r.ifGroup # None \/ HasActivation(r)

Ids(file) == {file[i].id : i \in DOMAIN file}
RuleOf(file, id) == file[CHOOSE i \in DOMAIN file : file[i].id = id]

\* The checks for a valid rule, given the rules in front of it.  (Whether the
\* groups and interventions it names exist, and its regex, are left out; the
\* patterns of if_field and if_trait are not checked.)
Valid(r, before) ==
  /\ r.id # 0 /\ r.id \notin Ids(before)
  /\ ~(r.parents # <<>> /\ r.ifGroup # None)
  /\ r.same => HasActivation(r)
  /\ HasUnless(r) => r.unless.id \in Ids(before) /\ r.parents # <<>>
  /\ HasActivation(r) => r.act.time > 0 /\ r.act.rate >= 2
  /\ \A p \in ToSet(r.parents) : p # r.id /\ (IsGroupRule(r) \/ p \in Ids(before))

Accepted(file) == \A i \in DOMAIN file : Valid(file[i], SubSeq(file, 1, i - 1))

-----------------------------------------------------------------------------
\* find_rule: the first node of a rule (<<>>: there is none).
FindRule(tree, id) ==
  LET i == SelectInSeq(tree, LAMBDA path : Last(path) = id)
  IN  IF i = 0 THEN <<>> ELSE tree[i]

\* emplace_back to the children of the node at path.
AddChild(tree, path, id) ==
  InsertAt(tree, SelectLastInSeq(tree, LAMBDA p : IsPrefix(path, p)) + 1, Append(path, id))

\* A child goes below the first node of its parent, standard rules first.
AddBelow(trees, parent, id) ==
  LET std == FindRule(trees.std, parent)
  IN  IF std # <<>> THEN [trees EXCEPT !.std = AddChild(@, std, id)]
                    ELSE [trees EXCEPT !.group = AddChild(@, FindRule(@, parent), id)]

\* Faulty: the rule is not inserted below the rule that stops its timer.
InsertOnce(trees, r) ==
  IF IsGroupRule(r) THEN [trees EXCEPT !.group = Append(@, <<r.id>>)]
  ELSE IF r.parents = <<>> THEN [trees EXCEPT !.std = Append(@, <<r.id>>)]
  ELSE FoldLeft(LAMBDA t, p : AddBelow(t, p, r.id), trees, r.parents)

\* Faulty: a rule with a timer is checked for every event.
InsertOnTop(trees, r) ==
  IF IsGroupRule(r) \/ HasUnless(r) THEN [trees EXCEPT !.group = Append(@, <<r.id>>)]
  ELSE IF r.parents = <<>> THEN [trees EXCEPT !.std = Append(@, <<r.id>>)]
  ELSE FoldLeft(LAMBDA t, p : AddBelow(t, p, r.id), trees, r.parents)

\* A rule is inserted among the group rules, on top or below each of its
\* parents, and once more below the rule that stops its timer.
Insert(trees, r) ==
  LET normal == IF IsGroupRule(r) THEN [trees EXCEPT !.group = Append(@, <<r.id>>)]
                ELSE IF r.parents = <<>> THEN [trees EXCEPT !.std = Append(@, <<r.id>>)]
                ELSE FoldLeft(LAMBDA t, p : AddBelow(t, p, r.id), trees, r.parents)
  IN  IF HasUnless(r) THEN AddBelow(normal, r.unless.id, r.id) ELSE normal

Load(file) == FoldLeft(Insert, [std |-> <<>>, group |-> <<>>], file)

\* The rules at the level below path (<<>>: the top level), in their order.
Level(tree, path) ==
  LET nodes == SelectSeq(tree, LAMBDA p : p # <<>> /\ Front(p) = path)
  IN  [i \in DOMAIN nodes |-> Last(nodes[i])]
=============================================================================
