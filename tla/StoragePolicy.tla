---------------------------- MODULE StoragePolicy ----------------------------
(***************************************************************************)
(* server/storage_policy.cpp on top of the storage manager: objects are    *)
(* evaluated against rules, ages, sizes and the retention, what is due is  *)
(* kept in pending_actions, and execute and execute_pending carry it out   *)
(* with the manager's calls.  Rules, retention and pending actions have a  *)
(* lock each, held for one step at a time.                                 *)
(*                                                                         *)
(* In a rule, range is the ages or the sizes it matches, keys those that   *)
(* match its pattern.  hold stands for legal_hold and compliance_mode,     *)
(* which the code treats alike.                                            *)
(***************************************************************************)
EXTENDS StorageManager, SequencesExt

CONSTANTS
  Rules,        \* every rule that may be in force
  AgeTiering,   \* [warm, cold, archive] ages, or None
  SizeTiering,  \* whether size tiering is configured
  Retention,    \* the retention policy it is built with
  Retentions,   \* those that may be set
  MaxPending    \* bound: evaluations pause when so many actions are pending

Actions == {"move", "copy", "archive", "delete_obj"}

RuleType ==
  [priority : Int, trigger : {"age", "size", "access_pattern", "manual"}, keys : SUBSET Keys,
   source : Tiers \cup {None}, range : SUBSET Nat, target : Tiers, action : Actions]

RetentionType == [hold : BOOLEAN, min : 0..MaxAge, exclusions : SUBSET Keys]

ASSUME PolicyAssumption ==
  /\ IsFiniteSet(Rules) /\ Rules \subseteq RuleType /\ \A r, s \in Rules : r # s => r.priority # s.priority
  /\ AgeTiering = None \/ AgeTiering \in [warm : Nat, cold : Nat, archive : Nat]
  /\ SizeTiering \in BOOLEAN /\ Retentions \cup {Retention} \subseteq RetentionType /\ MaxPending \in Nat

VARIABLES
  rules,      \* rules in force; a rule that is disabled or removed is not in it
  retention,
  pending,    \* pending_actions
  work,       \* thread -> the metadata it has yet to evaluate, the actions it has yet to execute
  due,        \* history: key -> the tier the last evaluation that asked for a move asked for
  vetted      \* history: keys whose deletion was evaluated since they or the retention last changed

policyVars == <<rules, retention, pending, work, due, vetted>>
vars == <<managerVars, policyVars>>

-----------------------------------------------------------------------------
(* impl::evaluate_object                                                   *)

\* access_count is never counted, so an access rule sees zero
Triggered(r, m) ==
  \/ r.trigger = "age" /\ m.age \in r.range
  \/ r.trigger = "size" /\ m.size \in r.range
  \/ r.trigger = "access_pattern" /\ 0 \in r.range

Matching(m) ==
  {r \in rules : m.key \in r.keys /\ r.source \in {None, m.tier} /\ Triggered(r, m)}

AgeTarget(m) ==
  IF AgeTiering = None THEN m.tier
  ELSE CASE m.tier = "hot" /\ m.age >= AgeTiering.warm     -> "warm"
         [] m.tier = "warm" /\ m.age >= AgeTiering.cold    -> "cold"
         [] m.tier = "cold" /\ m.age >= AgeTiering.archive -> "archive"
         [] OTHER                                          -> m.tier

SizeTarget(m) ==
  CASE ~SizeTiering                                        -> m.tier
    [] SizeTiering /\ m.size = 0                           -> "hot"
    [] SizeTiering /\ m.size = 1 /\ m.tier = "hot"         -> "warm"
    [] SizeTiering /\ m.size = 2 /\ m.tier \in {"hot", "warm"} -> "cold"
    [] OTHER                                               -> m.tier

\* what is to be done with the object, before the retention is asked (the last step of the ages is
\* called archive and carried out as a move)
Recommended(m) ==
  IF Matching(m) # {}
  THEN LET r == CHOOSE r \in Matching(m) : \A s \in Matching(m) : r.priority >= s.priority
       IN [key |-> m.key, target |-> r.target, action |-> r.action]
  ELSE [key |-> m.key, action |-> "move",
        target |-> IF AgeTarget(m) # m.tier THEN AgeTarget(m) ELSE SizeTarget(m)]

BlockedByHold(a, m) ==   \* mutated form: the minimum retention is left to can_delete
  a.action = "delete_obj" /\ retention.hold
Blocked(a, m) == a.action = "delete_obj" /\ (retention.hold \/ m.age < retention.min)

\* a rule whose target is the tier the object is in is never carried out
IsDue(a, m) == a.target # m.tier /\ ~Blocked(a, m)

CanDelete(k) ==
  \/ k \in retention.exclusions
  \/ ~retention.hold /\ (Has("primary", k) => objects["primary"][k].age >= retention.min)

-----------------------------------------------------------------------------
NoWork == [metas |-> {}, todo |-> <<>>]

PolicyInit ==
  /\ Init
  /\ rules \in SUBSET (IF config.attached THEN Rules ELSE {}) /\ retention = Retention
  /\ pending = <<>> /\ work = [t \in Threads |-> NoWork]
  /\ due = [k \in Keys |-> None] /\ vetted = {}

(* get_metadata asks the secondary when the primary does not know or does  *)
(* not answer; b is the backend that knew, None if none did.               *)
Knowing(k) == {b \in Backends : Answers(b) /\ Has(b, k) /\ (b = "primary" \/ config.fallback)}

GetMetadata(k, b) ==
  LET skipped == IF b = "secondary" THEN Knowing(k) \ {b} ELSE IF b = None THEN Knowing(k) ELSE {} IN
  /\ b \in Knowing(k) \cup {None}
  /\ faults' = faults + Cardinality(skipped) /\ faults' <= config.maxFaults

BeginWork(t, op, metas) ==
  /\ config.attached
  /\ At(t, "idle") /\ initialized /\ calls < config.maxCalls /\ Len(pending) < MaxPending
  /\ calls' = calls + 1
  /\ call' = [call EXCEPT ![t] = [NoCall EXCEPT !.op = op, !.pc = "evaluate"]]
  /\ work' = [work EXCEPT ![t].metas = metas]
  /\ UNCHANGED <<config, objects, initialized, connected, truth, sound,
                 rules, retention, pending, due, vetted>>

\* evaluate, and the evaluation execute begins with
Evaluate(t, k, op) ==
  \E b \in Backends : GetMetadata(k, b) /\ BeginWork(t, op, {Metadata(b, k)})

(* evaluate_all, evaluate_prefix: a list of the primary, or of both if     *)
(* storage is hybrid, where one that cannot be listed counts as empty.     *)
Listing(lost, prefix) ==
  LET shown(b) == {k \in prefix : b \notin lost /\ Answers(b) /\ Has(b, k)} IN
  {Listed("primary", k) : k \in shown("primary")} \cup
    IF config.hybrid THEN {Listed("secondary", k) : k \in shown("secondary") \ shown("primary")} ELSE {}

EvaluateAll(t, prefix) ==
  \E lost \in SUBSET (IF config.hybrid THEN Backends ELSE {}) :
    /\ faults' = faults + Cardinality(lost) /\ faults' <= config.maxFaults
    /\ Listing(lost, prefix) # {}
    /\ BeginWork(t, "evaluate", Listing(lost, prefix))

\* a thread goes on with the actions it has taken on, or returns
GoOn(t, todo) ==
  /\ work' = [work EXCEPT ![t] = [metas |-> {}, todo |-> todo]]
  /\ call' = [call EXCEPT ![t] =
       IF todo = <<>> THEN NoCall ELSE [NoCall EXCEPT !.op = call[t].op, !.pc = "act"]]

Executing(u) == call[u].op \in {"execute", "execute_pending"}
Alone(t)     == \A u \in Threads \ {t} : ~Executing(u)

\* the evaluation of one object, with what follows from it
EvaluateObject(t, m) ==
  LET a == Recommended(m) IN
  /\ At(t, "evaluate") /\ m \in work[t].metas
  /\ IF IsDue(a, m)
     THEN /\ pending' = Append(pending, a)
          /\ due' = [due EXCEPT ![m.key] =
               IF a.action # "delete_obj" /\ (Executing(t) => Alone(t)) THEN a.target ELSE None]
          /\ vetted' = IF a.action = "delete_obj" /\ Has("primary", m.key)
                          /\ objects["primary"][m.key].age = m.age
                          /\ ~Busy(t, m.key)
                       THEN vetted \cup {m.key} ELSE vetted
     ELSE UNCHANGED <<pending, due, vetted>>
  /\ IF call[t].op = "execute"
     THEN GoOn(t, IF IsDue(a, m) THEN <<a>> ELSE <<>>)
     ELSE IF work[t].metas = {m} THEN GoOn(t, <<>>)
     ELSE work' = [work EXCEPT ![t].metas = @ \ {m}] /\ UNCHANGED call
  /\ UNCHANGED <<config, objects, initialized, connected, calls, faults, truth, sound, rules, retention>>

(* execute_pending takes every pending action; the actions are not         *)
(* evaluated again.                                                        *)
TakePending(t, todo) ==
  /\ At(t, "idle") /\ calls < config.maxCalls /\ pending # <<>>
  /\ calls' = calls + 1
  /\ pending' = <<>>
  /\ work' = [work EXCEPT ![t].todo = todo]
  /\ call' = [call EXCEPT ![t] = [NoCall EXCEPT !.op = "execute_pending", !.pc = "act"]]
  /\ due' = [k \in Keys |-> IF Alone(t) THEN due[k] ELSE None]
  /\ UNCHANGED <<config, objects, initialized, connected, faults, truth, sound, rules, retention, vetted>>

ExecutePendingLastFirst(t) ==   \* mutated form: the newest action is popped first
  TakePending(t, Reverse(pending))
ExecutePending(t) == TakePending(t, pending)

(* execute_action: the metadata is read once more, for its existence only; *)
(* then change_tier or remove are called.                                  *)
ActionOf(t) == Head(work[t].todo)

ActionFails(t) ==
  LET k == ActionOf(t).key IN
  /\ At(t, "act")
  /\ \/ ~initialized /\ UNCHANGED faults
     \/ initialized /\ faults' = faults + Cardinality(Knowing(k)) /\ faults' <= config.maxFaults
  /\ due' = [due EXCEPT ![k] = None]
  /\ GoOn(t, Tail(work[t].todo))
  /\ UNCHANGED <<config, objects, initialized, connected, calls, truth, sound, rules, retention, pending, vetted>>

Found(t) == At(t, "act") /\ initialized /\ Knowing(ActionOf(t).key) # {}

DryRun(t) ==
  /\ Found(t) /\ config.dry
  /\ GoOn(t, Tail(work[t].todo))
  /\ UNCHANGED <<config, objects, initialized, connected, calls, faults, truth, sound,
                 rules, retention, pending, due, vetted>>

CarryOut(t) ==
  LET a == ActionOf(t) IN
  /\ Found(t) /\ ~config.dry
  /\ IF a.action = "delete_obj"
     THEN /\ Enter(t, [NoCall EXCEPT !.op = call[t].op, !.pc = "remove", !.key = a.key])
          /\ UNCHANGED vetted
     ELSE /\ Enter(t, Moving(call[t].op, a.key, a.target))
          /\ vetted' = vetted \ {a.key}
  /\ due' = IF Busy(t, a.key) THEN [due EXCEPT ![a.key] = None] ELSE due
  /\ UNCHANGED <<config, objects, initialized, connected, calls, faults,
                 rules, retention, pending, work>>

ActionReturns(t) ==
  LET c == call[t] IN
  /\ At(t, "returned") /\ Executing(t)
  /\ Learn(c)
  /\ due' = IF c.ok THEN due ELSE [due EXCEPT ![c.key] = None]
  /\ GoOn(t, Tail(work[t].todo))
  /\ UNCHANGED <<config, objects, initialized, connected, calls, faults, rules, retention, pending, vetted>>

-----------------------------------------------------------------------------
\* add_rule, remove_rule, set_rule_enabled
ChangeRules ==
  /\ config.attached
  /\ calls < config.maxCalls /\ calls' = calls + 1
  /\ \E r \in Rules : rules' = IF r \in rules THEN rules \ {r} ELSE rules \cup {r}
  /\ UNCHANGED <<config, objects, initialized, connected, call, faults, truth, sound,
                 retention, pending, work, due, vetted>>

SetRetention ==
  /\ config.attached
  /\ calls < config.maxCalls /\ calls' = calls + 1
  /\ retention' \in Retentions \ {retention}
  /\ vetted' = {}
  /\ UNCHANGED <<config, objects, initialized, connected, call, faults, truth, sound,
                 rules, pending, work, due>>

\* every object grows older; no call is in progress for as long as a period, and only policies ask
Older(x) == [x EXCEPT !.age = IF @ < MaxAge THEN @ + 1 ELSE @]

TimePasses ==
  /\ config.attached /\ \A t \in Threads : At(t, "idle")
  /\ objects' = [b \in Backends |-> [k \in Keys |-> IF Has(b, k) THEN Older(objects[b][k]) ELSE None]]
  /\ UNCHANGED <<config, initialized, connected, call, calls, faults, truth, sound,
                 rules, retention, pending, work, due, vetted>>

(* The manager's own calls, with what they mean for the histories.         *)
ManagerCall(t) ==
  /\ ManagerStep(t)
  /\ UNCHANGED <<rules, retention, pending, work>>
  /\ LET c == call'[t] IN
     IF At(t, "idle") /\ c.op \in Mutators
     THEN due' = [due EXCEPT ![c.key] = None] /\ vetted' = vetted \ {c.key}
     ELSE UNCHANGED <<due, vetted>>

PolicyStep(t) ==
  \/ \E k \in Keys, op \in {"evaluate", "execute"} : Evaluate(t, k, op)
  \/ \E prefix \in SUBSET Keys : EvaluateAll(t, prefix)
  \/ \E m \in work[t].metas : EvaluateObject(t, m)
  \/ ExecutePending(t) \/ ActionFails(t) \/ DryRun(t) \/ CarryOut(t) \/ ActionReturns(t)

Next ==
  \/ \E t \in Threads : ManagerCall(t) \/ PolicyStep(t)
  \/ ChangeRules \/ SetRetention \/ TimePasses

Spec == PolicyInit /\ [][Next]_vars

-----------------------------------------------------------------------------

(* No deletion the policy carries out is one can_delete refuses: what      *)
(* evaluate_object blocks and what can_delete blocks agree, and time does  *)
(* not part them.  Excepted are deletions whose object was rewritten, or   *)
(* the retention replaced, since the evaluation: execute_pending does not  *)
(* ask again.                                                              *)
ProtectedStays ==
  \A t \in Threads : LET c == call[t] IN
    Executing(t) /\ c.pc = "remove" /\ c.at = "primary" /\ c.key \in vetted => CanDelete(c.key)

(* Once everything that was pending is executed, an object in a cloud is   *)
(* in the tier its last evaluation asked for, also when execute left its   *)
(* own action pending and it was executed twice.  Excepted are objects     *)
(* whose move failed or overlapped another call, and all of them while two *)
(* threads execute what is pending: due says nothing of these until they   *)
(* are evaluated again.  (A directory knows no tiers.)                     *)
TierFollows ==
  \A k \in Keys :
    /\ pending = <<>> /\ \A t \in Threads : call[t] = NoCall
    /\ ~Local("primary") /\ ~config.dry /\ Has("primary", k)
    => due[k] \in {None, TierOf(objects["primary"][k].class)}
=============================================================================
