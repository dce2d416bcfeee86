------------------------------ MODULE RuleEngine ------------------------------
(***************************************************************************)
(* What the rules of ctguard-research make of a sequence of events:        *)
(* process_log in the processing thread, the timers of unless rules, which *)
(* the state thread looks at meanwhile, and a clock.                       *)
(*                                                                         *)
(* One step of the processing thread checks all rules of one level of a    *)
(* tree (check_top_rules).  Each rule has a state of its own, guarded by a *)
(* mutex of its own, and a second check of a rule at the same level has    *)
(* the effect of the first; so a step of the state thread between two      *)
(* checks of a level commutes with the others.                             *)
(***************************************************************************)
EXTENDS RuleTree, FiniteSets, Integers

CONSTANTS
  RuleFiles,   \* the rule files that are considered
  Inputs,      \* for each file the events that come: their kind, as far as regexes,
               \* fields and traits tell, and the value of the field of same_field
  NoField,     \* an event without that field
  LogPriority, \* cfg.log_priority
  MaxId,       \* the largest rule_id_t
  MaxEvents,   \* bound: number of events
  MaxTime      \* bound: the last second

ASSUME FilesAssumption  == \A file \in RuleFiles : Accepted(file)
ASSUME IdsAssumption    == \A file \in RuleFiles : \A id \in Ids(file) : id <= MaxId
ASSUME BoundsAssumption == LogPriority \in Nat /\ MaxEvents \in Nat /\ MaxTime \in Nat \ {0}

VARIABLES
  file,     \* the rules, never changed
  now,      \* the clock
  pc,       \* the processing thread: idle, check, done, or failed by an exception
  phase,    \* the tree at work: std or group
  path,     \* the rules that fit so far in this tree: the node they lead to
  ev,       \* the event at work
  mevents,  \* rules_state[..].mevents, oldest first
  timer,    \* rules_state[..].unless_triggered (0: off) and unless_event
  log       \* history: counted events, rules that fit, alerts

vars == <<file, now, pc, phase, path, ev, mevents, timer, log>>

\* std_rules and group_rules of each file.
Trees == [f \in RuleFiles |-> Load(f)]

Off == [since |-> 0, alert |-> FALSE]
NoEvent == [kind |-> None, field |-> NoField, groups |-> {}, priority |-> 0, rule |-> 0, always |-> FALSE]

Init ==
  /\ file \in RuleFiles
  /\ now = 1
  /\ pc = "idle"
  /\ phase = "std" /\ path = <<>> /\ ev = NoEvent
  /\ mevents = [id \in Ids(file) |-> <<>>]
  /\ timer = [id \in Ids(file) |-> Off]
  /\ log = <<>>

Plain(what, id) == [what |-> what, rule |-> id, time |-> 0, field |-> NoField, groups |-> {}, node |-> <<>>]
Entry(what, id) == [Plain(what, id) EXCEPT !.time = now, !.field = ev.field, !.groups = ev.groups]
NumberOf(what) == Len(SelectSeq(log, LAMBDA e : e.what = what))

-----------------------------------------------------------------------------
(* check_rule                                                              *)

InGroup(r) == r.act.group \in ev.groups

\* The events an activation rule keeps: this one, if it is in the group, and
\* those that are not too old.
Kept(r) ==
  LET all == IF InGroup(r) THEN Append(mevents[r.id], [time |-> now, field |-> ev.field]) ELSE mevents[r.id]
  IN  SelectSeq(all, LAMBDA m : m.time + r.act.time >= now)

SameField(seq) == SelectSeq(seq, LAMBDA m : m.field = ev.field)

\* Whether the rate is reached.  (The first event of a group only creates the
\* state of the rule; since a rate is at least 2 this makes no difference.)
Active(r) ==
  IF r.same THEN ev.field # NoField /\ Len(SameField(Kept(r))) >= r.act.rate
            ELSE Len(Kept(r)) >= r.act.rate

HasIfGroup(r) == r.ifGroup \in {None, Always} \cup ev.groups

\* What the rule asks of the event itself, provided that it asks for something.
Matches(r) ==
  /\ ~HasUnless(r)
  /\ HasActivation(r) => Active(r)
  /\ HasIfGroup(r)
  /\ r.kinds # {} => ev.kind \in r.kinds
  /\ \/ HasActivation(r) /\ InGroup(r)
     \/ r.ifGroup # None \/ r.kinds # {} \/ r.parents # <<>>

\* An unless rule that is neither below a parent nor below its unless rule.
UnknownChild(r) == HasUnless(r) /\ ev.rule \notin ToSet(r.parents) \cup {r.unless.id}

\* A pattern is made a regex when it is needed, which throws if it is none.  The
\* activation group is dealt with before, but it is looked at only at the end.
BadRegex(r) == ~HasUnless(r) /\ HasIfGroup(r) /\ ev.kind \in r.broken

Throws(r) == UnknownChild(r) \/ BadRegex(r)

\* ev.update(rl): the event of the timer, of which only matters whether it will
\* be alerted.  always_alert stays that of the event.
UnlessEvent(r) == [since |-> now, alert |-> r.priority >= LogPriority \/ ev.always]

-----------------------------------------------------------------------------
(* process_log                                                             *)

Receive(input) ==
  /\ pc = "idle"
  /\ NumberOf("event") < MaxEvents
  /\ ev' = [NoEvent EXCEPT !.kind = input.kind, !.field = input.field]
  /\ pc' = "check" /\ phase' = "std" /\ path' = <<>>
  /\ log' = Append(log, Plain("event", 0))
  /\ UNCHANGED <<file, now, mevents, timer>>

\* The rules of the level that get checked: all, or those up to the one that throws.
ToCheck ==
  LET level == Level(Trees[file][phase], path)
      rules == [i \in DOMAIN level |-> RuleOf(file, level[i])]
      bad   == SelectInSeq(rules, Throws)
  IN  [rules |-> IF bad = 0 THEN ToSet(rules) ELSE ToSet(SubSeq(rules, 1, bad)), throws |-> bad # 0]

\* What the checks leave behind in the states of the rules.
EventsKept(checked) ==
  [id \in Ids(file) |->
     LET r == RuleOf(file, id)
     IN  IF r \in checked /\ HasActivation(r) /\ ~HasUnless(r) THEN Kept(r) ELSE mevents[id]]

TimersSet(checked) ==
  [id \in Ids(file) |->
     LET r == RuleOf(file, id)
     IN  IF r \notin checked \/ ~HasUnless(r) THEN timer[id]
         ELSE IF ev.rule \in ToSet(r.parents) THEN UnlessEvent(r)
         ELSE IF ev.rule = r.unless.id THEN Off ELSE timer[id]]

\* check_top_rules: the highest priority, then the lowest id.  The search starts
\* with priority 0 and the largest id, which are no rule's yet.
Fits(r, matching) ==
  /\ r \in matching
  /\ r.priority > 0 \/ r.id < MaxId
  /\ \A s \in matching : s.priority < r.priority \/ (s.priority = r.priority /\ s.id >= r.id)

\* Faulty: all events are discarded, not only those with the same field.
ResetAll(r, kept) == IF r.act.group # None /\ r.act.reset THEN [kept EXCEPT ![r.id] = <<>>] ELSE kept

\* Faulty: nothing is discarded.
ResetNothing(r, kept) == kept

\* update_state: a rule with reset starts to count anew.
Reset(r, kept) ==
  IF ~HasActivation(r) \/ ~r.act.reset THEN kept
  ELSE IF ~r.same THEN [kept EXCEPT ![r.id] = <<>>]
  ELSE IF ev.field = NoField THEN kept
  ELSE [kept EXCEPT ![r.id] = SelectSeq(@, LAMBDA m : m.field # ev.field)]

\* The group rules of the top level see each event once: it is counted there.
Counted == IF phase = "group" /\ path = <<>> THEN <<Entry("counted", 0)>> ELSE <<>>

\* update_event, update_state, and on to the children of the rule that fits.
FitRule ==
  /\ pc = "check"
  /\ ~ToCheck.throws
  /\ \E r \in ToCheck.rules :
       /\ Fits(r, {s \in ToCheck.rules : Matches(s)})
       /\ mevents' = Reset(r, EventsKept(ToCheck.rules))
       /\ ev' = [ev EXCEPT !.groups = @ \cup r.groups, !.priority = r.priority, !.rule = r.id, !.always = r.always]
       /\ path' = Append(path, r.id)
       /\ log' = log \o Counted \o <<[Entry("fit", r.id) EXCEPT !.node = <<phase, path'>>]>>
  /\ timer' = TimersSet(ToCheck.rules)
  /\ UNCHANGED <<file, now, pc, phase>>

\* No rule of the level matches: on to the group rules, or the end.
NoRule ==
  /\ pc = "check"
  /\ ~ToCheck.throws
  /\ \A r \in ToCheck.rules : ~Matches(r)
  /\ mevents' = EventsKept(ToCheck.rules)
  /\ timer' = TimersSet(ToCheck.rules)
  /\ log' = log \o Counted
  /\ path' = <<>>
  /\ IF phase = "std" THEN phase' = "group" /\ UNCHANGED pc
                      ELSE pc' = "done" /\ UNCHANGED phase
  /\ UNCHANGED <<file, now, ev>>

\* check_rule, or check_top_rules if it finds no fitting one among the rules that
\* match, throws.  The exception ends the processing thread.
CheckThrows ==
  /\ pc = "check"
  /\ ToCheck.throws \/ LET matching == {r \in ToCheck.rules : Matches(r)}
                       IN  matching # {} /\ ~ \E r \in matching : Fits(r, matching)
  /\ mevents' = EventsKept(ToCheck.rules)
  /\ timer' = TimersSet(ToCheck.rules)
  /\ pc' = "failed"
  /\ UNCHANGED <<file, now, phase, path, ev, log>>

\* processing_task: the event is alerted if its priority is high enough.
Finish ==
  /\ pc = "done"
  /\ log' = IF ev.priority >= LogPriority \/ ev.always THEN Append(log, Plain("alert", ev.rule)) ELSE log
  /\ pc' = "idle" /\ phase' = "std" /\ ev' = NoEvent
  /\ UNCHANGED <<file, now, path, mevents, timer>>

-----------------------------------------------------------------------------
(* state_task and the clock                                                *)

Due(id) == timer[id].since # 0 /\ timer[id].since + RuleOf(file, id).unless.timeout < now

\* The entry is made whether or not the event is alerted.
TimeOut(id) ==
  /\ Due(id)
  /\ timer' = [timer EXCEPT ![id] = Off]
  /\ log' = Append(log, [Plain(IF timer[id].alert THEN "timeout" ELSE "silent", id) EXCEPT !.time = now])
  /\ UNCHANGED <<file, now, pc, phase, path, ev, mevents>>

Tick ==
  /\ now < MaxTime
  /\ now' = now + 1
  /\ UNCHANGED <<file, pc, phase, path, ev, mevents, timer, log>>

-----------------------------------------------------------------------------
Process == FitRule \/ NoRule \/ CheckThrows \/ Finish
State == \E id \in Ids(file) : TimeOut(id)

Next == \/ \E input \in Inputs[file] : Receive(input)
        \/ Process \/ State \/ Tick

Spec == Init /\ [][Next]_vars

-----------------------------------------------------------------------------
TypeOK ==
  /\ file \in RuleFiles
  /\ now \in 1..MaxTime
  /\ pc \in {"idle", "check", "done", "failed"}
  /\ phase \in {"std", "group"}
  /\ path # <<>> => path \in ToSet(Trees[file][phase])
  /\ pc \in {"check", "done"} => [kind |-> ev.kind, field |-> ev.field] \in Inputs[file]
  /\ ev.priority \in Nat /\ ev.rule \in Ids(file) \cup {0} /\ ev.always \in BOOLEAN
  /\ mevents \in [Ids(file) -> Seq([time : 1..MaxTime, field : {input.field : input \in Inputs[file]}])]
  /\ timer \in [Ids(file) -> [since : 0..MaxTime, alert : BOOLEAN]]

\* Whether entry i of the log is an event rule r counts, or rule r firing.
IsCounted(i, r) == log[i].what = "counted" /\ r.act.group \in log[i].groups
IsFit(i, ids)   == log[i].what = "fit" /\ log[i].rule \in ids

\* The events rule r ought to count for the event at work: all of the last
\* r.act.time seconds, back to the last time it fired if it is to be reset.
OughtToCount(r) ==
  {i \in DOMAIN log :
     /\ IsCounted(i, r)
     /\ log[i].time + r.act.time >= now
     /\ r.same => log[i].field = ev.field
     /\ r.act.reset => ~ \E j \in i + 1..Len(log) :
                          IsFit(j, {r.id}) /\ (r.same => log[j].field = log[i].field)}

\* An activation rule is active exactly if its rate of events was reached within
\* its time, counted over all events there ever were: what the daemon discards,
\* prunes or keeps for other fields never makes a difference.
RatesAreExact ==
  pc = "check" /\ phase = "group" /\ path = <<>> =>
    \A id \in Ids(file) :
      LET r     == RuleOf(file, id)
          count == Cardinality(OughtToCount(r)) + (IF InGroup(r) THEN 1 ELSE 0)
      IN  HasActivation(r) /\ ~HasUnless(r) =>
            (Active(r) <=> count >= r.act.rate /\ (r.same => ev.field # NoField))

\* A rule with reset never uses an event twice: each time it fires, as many
\* events as its rate asks for have come since it fired before.
ResetConsumes ==
  \A id \in Ids(file) :
    LET r == RuleOf(file, id)
    IN  HasActivation(r) /\ r.act.reset =>
          \A k \in DOMAIN log : IsFit(k, {id}) =>
            \A j \in 1..k - 1 :
              IsFit(j, {id}) /\ (r.same => log[j].field = log[k].field) =>
                Cardinality({i \in j + 1..k : /\ IsCounted(i, r)
                                              /\ r.same => log[i].field = log[k].field}) >= r.act.rate

\* Whether an entry of the log at i had reached the children of its rule before
\* the entry at k was made.
Settled(i, k) == \E m \in i + 1..k - 1 : log[m].what \in {"counted", "event"}

\* The node find_rule finds for a rule: its only one, unless it has several
\* parents.
FirstNode(id) ==
  LET std == FindRule(Trees[file].std, id)
  IN  IF std # <<>> THEN <<"std", std>> ELSE <<"group", FindRule(Trees[file].group, id)>>

\* A report at k is justified if a parent of its rule fitted more than its timeout
\* ago, no report was made since, and no stop for its rule has come since (unless
\* the event that stops it was still being processed).
Justified(k, Stops(_, _)) ==
  LET r == RuleOf(file, log[k].rule)
  IN  \E j \in 1..k - 1 :
        /\ IsFit(j, ToSet(r.parents)) /\ log[j].time + r.unless.timeout < log[k].time
        /\ \A i \in j + 1..k - 1 :
             /\ Stops(i, r) => ~Settled(i, k)
             /\ log[i].what \in {"timeout", "silent"} => log[i].rule # r.id

IsReport(k) == log[k].what \in {"timeout", "silent"}

\* An unless rule reports only what it is for: a parent fitted more than its
\* timeout ago, and since then the unless rule did not fit where the timer can
\* be stopped, which is at the first node of that rule.
UnlessAlertsJustified ==
  \A k \in DOMAIN log : IsReport(k) =>
    Justified(k, LAMBDA i, r : IsFit(i, {r.unless.id}) /\ log[i].node = FirstNode(r.unless.id))

\* What the manual page of the rules says of unless_rule, which "triggers an alert
\* if the specified rule will not be triggered within a timeout": none if that
\* rule was triggered, at whichever of its nodes.  The code violates it: see Copies of
\* MCRuleEngine.
UnlessAlertsTruthful ==
  \A k \in DOMAIN log : IsReport(k) => Justified(k, LAMBDA i, r : IsFit(i, {r.unless.id}))

\* An accepted rule file ends the processing thread only if it gives a rule a timer
\* and a group, gives one a pattern that is no regex, of which an event makes use,
\* or gives one the largest id and no priority.  Any other unless rule is checked
\* nowhere but below its parents and its unless rule.
FailsOnlyOnBadRules ==
  pc = "failed" =>
    \E id \in Ids(file) :
      LET r == RuleOf(file, id)
      IN  \/ HasUnless(r) /\ IsGroupRule(r)
          \/ ev.kind \in r.broken
          \/ r.id = MaxId /\ r.priority = 0
=============================================================================
