------------------------------- MODULE Configs -------------------------------
(***************************************************************************)
(* The configurations of one persona in Postgres, the requests that change *)
(* them, the rule list of the engine, and the fires that refer to rules.   *)
(*                                                                         *)
(*   promote  POST /activate-config with a persona                         *)
(*            (ActivatePersonaSeededConfig)                                *)
(*   byID     POST /activate-config with an id                             *)
(*   custom   POST /activate-config with a persona and a document          *)
(*            (activateWithCustomYAML, ReplaceConfigRules, engine.Reload)  *)
(*   seed     POST /admin/seed or the seed command (upsertPersonaConfig)   *)
(*                                                                         *)
(* A request is a sequence of steps.  The statements of its transaction    *)
(* are those of READ COMMITTED: a statement picks its rows from what is    *)
(* committed when it starts, takes their locks one by one, waiting for the *)
(* transaction that holds one, and leaves out a row that was deleted in    *)
(* the meantime; its writes appear at the commit.  A transaction may fail  *)
(* at any point (a deadlock, the request's timeout, a lost connection).    *)
(*                                                                         *)
(* All the rules of one document are one row of rules: they are inserted,  *)
(* and deleted, together.                                                  *)
(***************************************************************************)
EXTENDS Integers, Sequences, FiniteSets, FiniteSetsExt

CONSTANTS Requests,   \* the requests that may be served at a time
          MaxOps,     \* bound: requests served in a behaviour
          MaxFires,   \* bound: rules with a fire in progress
          MaxFaults   \* bound: failed reloads and restarts

ASSUME ConfigsAssumption == {MaxOps, MaxFires, MaxFaults} \subseteq Nat

VARIABLES
  configs,     \* committed rows: id -> active; ids grow with created_at
  rules,       \* committed rows: [id, cfg, ok], ok when the rule compiles
  referenced,  \* the rule ids that committed trigger rows refer to
  req,         \* the requests in progress
  tick,        \* the rule list the reload ticker has loaded: at most one
  engine,      \* the rule list of the engine
  fires,       \* the rules of the matches whose trigger is not yet inserted
  ops,         \* requests served so far; numbers the rows they insert
  faults,
  overlapped   \* history: two seeds have been in progress at a time

vars == <<configs, rules, referenced, req, tick, engine, fires, ops, faults,
          overlapped>>

\* The steps of a request: "find" the configuration, then one step for each
\* statement, "commit", and for a custom document the reload of the engine.
Program(op) ==
  CASE op = "idle" -> <<"none">>
    [] op \in {"promote", "byID"} -> <<"find", "off", "on", "commit">>
    [] op = "custom" -> <<"find", "on", "off", "nullify", "drop", "commit",
                          "load", "replace">>
    [] op = "seed"   -> <<"delete", "cascade", "commit">>

\* cfg: the row to activate or insert; ok: its document compiles; seen: the
\* rows the deactivation saw; todo: the rows the statement has yet to lock;
\* on, off, del: the rows written so far; nul: the rules no longer referred
\* to; gone: the rules deleted; list: the rules loaded for the engine.
NewReq(op, n, cfg, ok) ==
  [op |-> op, n |-> n, at |-> 1, cfg |-> cfg, ok |-> ok, seen |-> {},
   busy |-> FALSE, todo |-> {}, on |-> {}, off |-> {}, del |-> {},
   nul |-> {}, gone |-> {}, list |-> {}]

Idle == NewReq("idle", 0, 0, TRUE)

Live   == DOMAIN configs
Active == {c \in Live : configs[c]}

RulesOf(cs) == {r \in rules : r.cfg \in cs}
IDs(rs)     == {r.id : r \in rs}

InProgress == {h \in Requests : req[h].op /= "idle"}
Step(h)    == Program(req[h].op)[req[h].at]
At(h, s)   == h \in InProgress /\ Step(h) = s

\* The row locks a transaction holds.
Locks(h) == req[h].on \cup req[h].off \cup req[h].del

\* The request goes on to its next step, with some of its fields changed.
Advance(h, q) ==
  req' = [req EXCEPT ![h] = [q EXCEPT !.at = @ + 1, !.busy = FALSE]]

Finish(h) == req' = [req EXCEPT ![h] = Idle]

-----------------------------------------------------------------------------
(* Starting a request.                                                     *)

\* It takes a free slot; which one makes no difference.
StartReq(h, q) ==
  /\ InProgress /= Requests /\ h = CHOOSE g \in Requests : g \notin InProgress
  /\ ops < MaxOps
  /\ ops' = ops + 1
  /\ req' = [req EXCEPT ![h] = q]
  /\ overlapped' = (overlapped \/ (q.op = "seed"
                      /\ \E g \in InProgress : req[g].op = "seed"))
  /\ UNCHANGED <<configs, rules, referenced, tick, engine, fires, faults>>

\* The persona path of handleActivateConfig, without a document.
StartPromote(h) == StartReq(h, NewReq("promote", ops + 1, 0, TRUE))

\* The legacy path: the caller names a row it has read.
StartByID(h) == \E c \in Live : StartReq(h, NewReq("byID", ops + 1, c, TRUE))

\* The wizard path.  parseRuleSpecsFromYAML asks for names only, so that a
\* document whose rules do not compile is accepted.
StartCustom(h) ==
  \E ok \in BOOLEAN : StartReq(h, NewReq("custom", ops + 1, 0, ok))

\* A seed inserts a row of its own, whose created_at is its start.
StartSeed(h) == StartReq(h, NewReq("seed", ops + 1, ops + 1, TRUE))

-----------------------------------------------------------------------------
(* The steps of a request.                                                 *)

\* The oldest configuration that owns an enabled rule.
Seeded == {c \in Live : RulesOf({c}) /= {}}
Oldest == Min(Seeded)

\* The query before the transaction; a 404 when it finds nothing.
Find(h) ==
  /\ At(h, "find")
  /\ LET q     == req[h]
         found == IF q.op = "byID" THEN Live \cap {q.cfg} ELSE Seeded
     IN IF found = {} THEN Finish(h)
        ELSE Advance(h, [q EXCEPT !.cfg = IF q.op = "byID" THEN @ ELSE Oldest])
  /\ UNCHANGED <<configs, rules, referenced, tick, engine, fires, ops, faults,
                 overlapped>>

\* A plausible slip: only the configurations created after this one.
OthersNewer(c) == {d \in Live : d > c}

\* UPDATE configs SET active = FALSE WHERE persona = $1 AND id <> $2
Others(c) == Live \ {c}

\* A plausible slip: the deletion keeps the active configuration.
PriorConfigsInactive == Live \ Active

\* DELETE FROM configs WHERE tenant_id = $1 AND persona = $2
PriorConfigs == Live

\* A statement starts: it picks its rows.
Snapshot(h) ==
  /\ At(h, "on") \/ At(h, "off") \/ At(h, "delete")
  /\ ~req[h].busy
  /\ LET q    == req[h]
         rows == CASE Step(h) = "on"     -> Live \cap {q.cfg}
                   [] Step(h) = "off"    -> Others(q.cfg)
                   [] Step(h) = "delete" -> PriorConfigs
         r    == [q EXCEPT !.todo = rows, !.busy = TRUE,
                           !.seen = IF Step(h) = "off" THEN Live ELSE @]
     IN IF rows = {} THEN Advance(h, r) ELSE req' = [req EXCEPT ![h] = r]
  /\ UNCHANGED <<configs, rules, referenced, tick, engine, fires, ops, faults,
                 overlapped>>

\* It gets the lock of one of them; the statement is over after the last.
LockRow(h, c) ==
  /\ h \in InProgress /\ c \in req[h].todo
  /\ \A g \in Requests \ {h} : c \notin Locks(g)
  /\ LET got == {c} \cap Live
         q   == [req[h] EXCEPT
                   !.todo = @ \ {c},
                   !.on  = IF Step(h) = "on" THEN @ \cup got ELSE @,
                   !.off = IF Step(h) = "off" THEN @ \cup got ELSE @,
                   !.del = IF Step(h) = "delete" THEN @ \cup got ELSE @]
     IN IF q.todo = {} THEN Advance(h, q) ELSE req' = [req EXCEPT ![h] = q]
  /\ UNCHANGED <<configs, rules, referenced, tick, engine, fires, ops, faults,
                 overlapped>>

\* ON DELETE CASCADE: the rules go with their configuration, unless a trigger
\* refers to one, which fails the statement and the transaction.
Cascade(h) ==
  /\ At(h, "cascade")
  /\ LET doomed == IDs(RulesOf(req[h].del))
     IN IF doomed \cap referenced /= {} THEN Finish(h)
        ELSE Advance(h, [req[h] EXCEPT !.gone = doomed])
  /\ UNCHANGED <<configs, rules, referenced, tick, engine, fires, ops, faults,
                 overlapped>>

\* UPDATE triggers SET rule_id = NULL for the rules of the configuration.
Nullify(h) ==
  /\ At(h, "nullify")
  /\ Advance(h, [req[h] EXCEPT !.nul = IDs(RulesOf({req[h].cfg})) \cap referenced])
  /\ UNCHANGED <<configs, rules, referenced, tick, engine, fires, ops, faults,
                 overlapped>>

\* A plausible slip: the old rules are left in place.
ReplacedNone(c) == {}

\* The rules a custom document replaces: all those of the configuration.
Replaced(c) == IDs(RulesOf({c}))

\* DELETE FROM rules; fails when a trigger was inserted since Nullify.
Drop(h) ==
  /\ At(h, "drop")
  /\ LET doomed == Replaced(req[h].cfg)
     IN IF (doomed \cap referenced) \ req[h].nul /= {} THEN Finish(h)
        ELSE Advance(h, [req[h] EXCEPT !.gone = doomed])
  /\ UNCHANGED <<configs, rules, referenced, tick, engine, fires, ops, faults,
                 overlapped>>

\* The inserts, which nobody else sees, and the commit.  The rules of a custom
\* document need their configuration row: when it is gone, the insert fails.
Commit(h) ==
  /\ At(h, "commit")
  /\ LET q   == req[h]
         new == IF q.op = "seed" THEN {q.cfg} ELSE {}
         doc == IF q.op \in {"seed", "custom"}
                THEN {[id |-> q.n, cfg |-> q.cfg, ok |-> q.ok]} ELSE {}
     IN IF q.op = "custom" /\ q.on = {}
        THEN Finish(h) /\ UNCHANGED <<configs, rules, referenced>>
        ELSE /\ configs' = [c \in (Live \ q.del) \cup new |->
                              c \in q.on \cup new \/ (c \notin q.off /\ configs[c])]
             /\ rules' = {r \in rules : r.id \notin q.gone} \cup doc
             /\ referenced' = referenced \ q.nul
             /\ IF q.op = "custom"
                THEN Advance(h, [NewReq(q.op, 0, 0, TRUE) EXCEPT !.at = q.at])
                ELSE Finish(h)
  /\ UNCHANGED <<tick, engine, fires, ops, faults, overlapped>>

\* Rollback, or a reload that fails after the commit (it is only logged).
Fail(h) ==
  /\ h \in InProgress
  /\ Finish(h)
  /\ UNCHANGED <<configs, rules, referenced, tick, engine, fires, ops, faults,
                 overlapped>>

-----------------------------------------------------------------------------
(* The engine's rule list.                                                 *)

\* A plausible slip: the loader does not look at the compiler's error.
CompiledAny(r) == TRUE

\* A rule whose stored specification does not compile is skipped.
Compiled(r) == r.ok

\* LoadActiveRules and loadRulesFromPG: the rules of the active configuration
\* that compile.
loadRulesFromPG == {r \in RulesOf(Active) : Compiled(r)}

\* A plausible slip: the copy is made and never stored.
ReplaceUnstored(list) == UNCHANGED engine

\* Replace swaps the list, whatever it holds.
Replace(list) == engine' = list

\* Reload of the handler, in its two steps.
ReqLoad(h) ==
  /\ At(h, "load")
  /\ Advance(h, [req[h] EXCEPT !.list = loadRulesFromPG])
  /\ UNCHANGED <<configs, rules, referenced, tick, engine, fires, ops, faults,
                 overlapped>>

ReqReplace(h) ==
  /\ At(h, "replace")
  /\ Replace(req[h].list)
  /\ Finish(h)
  /\ UNCHANGED <<configs, rules, referenced, tick, fires, ops, faults, overlapped>>

\* Reload of the 30-second ticker; an error leaves the list as it is.
TickLoad ==
  /\ tick = {}
  /\ tick' = {loadRulesFromPG}
  /\ UNCHANGED <<configs, rules, referenced, req, engine, fires, ops, faults,
                 overlapped>>

TickReplace ==
  /\ \E list \in tick : Replace(list)
  /\ tick' = {}
  /\ UNCHANGED <<configs, rules, referenced, req, fires, ops, faults, overlapped>>

TickFails ==
  /\ tick /= {} /\ faults < MaxFaults
  /\ tick' = {} /\ faults' = faults + 1
  /\ UNCHANGED <<configs, rules, referenced, req, engine, fires, ops, overlapped>>

\* The service stops, its transactions with it, and boots again: the first
\* reload may fail, and leaves the engine empty.  The seed command is a
\* process of its own.
Restart ==
  /\ faults < MaxFaults
  /\ faults' = faults + 1
  /\ req' = [h \in Requests |-> IF req[h].op = "seed" THEN req[h] ELSE Idle]
  /\ tick' = {} /\ fires' = {}
  /\ engine' \in {{}, loadRulesFromPG}
  /\ UNCHANGED <<configs, rules, referenced, ops, overlapped>>

-----------------------------------------------------------------------------
(* The fires and the reset, as far as the rows of triggers are concerned.  *)

\* The engine matches a rule of its list; the worker takes its time.
Match ==
  /\ Cardinality(fires) < MaxFires
  /\ \E r \in engine : fires' = fires \cup {r.id}
  /\ UNCHANGED <<configs, rules, referenced, req, tick, engine, ops, faults,
                 overlapped>>

\* InsertTrigger: waits for a transaction that has deleted the rule, and fails
\* (it is only logged) when the rule has no row.
InsertTrigger(id) ==
  /\ \A h \in InProgress : id \notin req[h].gone
  /\ fires' = fires \ {id}
  /\ IF id \in IDs(rules)
     THEN /\ referenced' = referenced \cup {id}
          /\ req' = [h \in Requests |-> [req[h] EXCEPT !.nul = @ \ {id}]]
     ELSE UNCHANGED <<referenced, req>>
  /\ UNCHANGED <<configs, rules, tick, engine, ops, faults, overlapped>>

\* handleDemoReset deletes the triggers; it waits for rows being nullified.
DemoReset ==
  /\ \A h \in InProgress : req[h].nul = {}
  /\ referenced' = {}
  /\ UNCHANGED <<configs, rules, req, tick, engine, fires, ops, faults, overlapped>>

-----------------------------------------------------------------------------
\* A database as the migrations leave it, or seeded, and a service just booted.
Init ==
  /\ \/ configs = <<>> /\ rules = {}
     \/ configs = [c \in {0} |-> TRUE] /\ rules = {[id |-> 0, cfg |-> 0, ok |-> TRUE]}
  /\ referenced = {} /\ fires = {}
  /\ req = [h \in Requests |-> Idle]
  /\ tick = {} /\ engine = loadRulesFromPG
  /\ ops = 0 /\ faults = 0 /\ overlapped = FALSE

Start(h) == StartPromote(h) \/ StartByID(h) \/ StartCustom(h) \/ StartSeed(h)

Proceed(h) ==
  \/ Find(h) \/ Snapshot(h) \/ \E c \in 0 .. ops : LockRow(h, c)
  \/ Cascade(h) \/ Nullify(h) \/ Drop(h) \/ Commit(h)
  \/ ReqLoad(h) \/ ReqReplace(h)

Next ==
  \/ \E h \in Requests : Start(h) \/ Proceed(h) \/ Fail(h)
  \/ TickLoad \/ TickReplace \/ TickFails \/ Restart
  \/ Match \/ \E id \in fires : InsertTrigger(id)
  \/ DemoReset

\* A request ends (Postgres breaks its deadlocks, and requests time out), and
\* the reload ticker keeps reloading.  Nothing is asked of clients.
Fairness ==
  /\ \A h \in Requests : WF_vars(Fail(h) \/ Proceed(h))
  /\ WF_vars(TickLoad) /\ WF_vars(TickReplace)

Spec == Init /\ [][Next]_vars /\ Fairness

-----------------------------------------------------------------------------
Rows == 0 .. MaxOps
Rule == [id : Rows, cfg : Rows, ok : BOOLEAN]

\* Types; in particular no row has two writers at a time, every trigger refers
\* to a rule that has a row, and a rule that does not compile never gets into
\* the engine's list, nor into a list being loaded.
TypeOK ==
  /\ Live \subseteq Rows /\ \A c \in Live : configs[c] \in BOOLEAN
  /\ rules \subseteq Rule
  /\ referenced \subseteq IDs(rules) /\ fires \subseteq Rows
  /\ \A h \in InProgress :
       /\ req[h].at \in DOMAIN Program(req[h].op)
       /\ \A r \in req[h].list : r \in Rule /\ r.ok
  /\ \A g, h \in Requests : g /= h => Locks(g) \cap Locks(h) = {}
  /\ Cardinality(tick) <= 1 /\ \A r \in UNION tick : r \in Rule /\ r.ok
  /\ \A r \in engine : r \in Rule /\ r.ok
  /\ ops \in 0 .. MaxOps /\ faults \in 0 .. MaxFaults /\ overlapped \in BOOLEAN

\* Whatever is interrupted or rolled back, every configuration owns the rules
\* of exactly one document, and no rule outlives its configuration
\* (ReplaceConfigRules and upsertPersonaConfig replace rules as a whole).
ConfigHasItsRules ==
  /\ \A c \in Live : Cardinality(RulesOf({c})) = 1
  /\ RulesOf(Live) = rules

\* The engine would evaluate every rule twice under two active configurations;
\* it takes two seeds at a time to get them: one misses the row the other one
\* is about to insert (upsertPersonaConfig).
TwoActiveOnlyAfterOverlap == Cardinality(Active) > 1 => overlapped

\* An activation that commits leaves active, of all the configurations there
\* were when it deactivated the others, at most its own, whatever committed in
\* between.
ActivationIsExclusive ==
  [][\A h \in Requests :
       /\ At(h, "commit") /\ Commit(h)
       /\ req[h].op \in {"promote", "byID"} \/ (req[h].op = "custom" /\ req[h].on /= {})
       => {c \in DOMAIN configs' : configs'[c]} \cap req[h].seen \subseteq {req[h].cfg}]_vars

\* Reloads of the handler and of the ticker overtake each other, fail and are
\* cut off by restarts: once the requests have stopped, the engine ends up with
\* the rules of the active configuration that compile, for good (Reload,
\* RunReloader).  From then on every fire finds the row of its rule.
EngineConverges == <>[](engine = loadRulesFromPG)

\* "ActivatePersonaSeededConfig promotes the oldest config that has at least
\* one enabled rule for the given persona to active=true": a persona that has
\* configurations has an active one.  It may have none: the configuration is
\* looked up before the transaction, and a seed replaces it in between.
SomeConfigActive == Live /= {} => Active /= {}

=============================================================================
