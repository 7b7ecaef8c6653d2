---------------------------- MODULE ConfigsProofs ----------------------------
(***************************************************************************)
(* Proofs about Configs, for every number of requests at a time and in a   *)
(* behaviour: type correctness, that every configuration owns the rules of *)
(* one document, that an activation leaves at most its own configuration   *)
(* active of those it saw, and that it takes two seeds at a time to get    *)
(* two active configurations.                                              *)
(***************************************************************************)
EXTENDS Configs, FiniteSetTheorems, WellFoundedInduction, TLAPS

-----------------------------------------------------------------------------
(***************************************************************************)
(* The inductive invariant: what holds of one request, of two of them, of  *)
(* the tables, and as long as no two seeds overlap.                        *)
(***************************************************************************)
Ops == {"idle", "promote", "byID", "custom", "seed"}

Req ==
  [op: Ops, n: Rows, at: 1 .. 8, cfg: Rows, ok: BOOLEAN, seen: SUBSET Rows,
   busy: BOOLEAN, todo: SUBSET Rows, on: SUBSET Rows, off: SUBSET Rows,
   del: SUBSET Rows, nul: SUBSET Rows, gone: SUBSET Rows, list: SUBSET Rule]

LocksOf(q) == q.on \cup q.off \cup q.del

\* What a request has done fits the step it is at: a slot is idle, or a custom
\* document is past its commit, or the request has its number and has locked
\* and deleted no more than its statements so far.
Shape(q) ==
  /\ q.op = "idle" => q.at = 1 /\ q.n = 0
  /\ q.op \in {"promote", "byID"} => q.at <= 4
  /\ q.op = "seed" => q.at <= 3 /\ q.cfg = q.n /\ q.n /= 0 /\ q.on = {} /\ q.off = {}
                         /\ q.seen = {}
  /\ q.op = "custom" /\ q.at <= 6 => q.n /= 0
  /\ q.op /= "seed" => q.del = {}
  /\ q.op = "idle" \/ (q.op = "custom" /\ q.at >= 7) =>
       LocksOf(q) = {} /\ q.gone = {} /\ q.seen = {} /\ q.n = 0
  /\ q.on \subseteq {q.cfg}
  /\ ~q.busy => q.todo = {}
  /\ q.busy => \/ q.op \in {"promote", "byID"} /\ q.at \in {2, 3}
               \/ q.op = "custom" /\ q.at \in {2, 3}
               \/ q.op = "seed" /\ q.at = 1
  /\ q.op \in {"promote", "byID"} /\ q.at = 3 => q.todo \subseteq {q.cfg}
  /\ q.op = "custom" /\ q.at = 2 => q.todo \subseteq {q.cfg}
  /\ q.at = 1 /\ q.op /= "seed" => q.seen = {} /\ LocksOf(q) = {}
  /\ q.gone /= {} => \/ q.op = "custom" /\ q.at = 6
                     \/ q.op = "seed" /\ q.at = 3

\* The rules a request is about to delete are all those of the rows it holds.
GoneIsOwn(q) ==
  /\ q.op = "custom" /\ q.at = 6 /\ q.on /= {} => q.gone = IDs(RulesOf({q.cfg}))
  /\ q.op = "seed" /\ q.at = 3 => q.gone = IDs(RulesOf(q.del))
  /\ q.gone \cap referenced \subseteq q.nul

\* A row the deactivation saw is its own, locked, still to be locked, or gone.
SeenIsOff(q) == \A c \in q.seen \cap Live : c = q.cfg \/ c \in q.off \cup q.todo

\* The number of a request is that of a row nobody has inserted yet.
Unused(q) == q.n /= 0 => q.n \notin Live \cup IDs(rules) \cup q.seen

Own(q) ==
  /\ q \in Req /\ Shape(q)
  /\ LocksOf(q) \subseteq Live
  /\ q.n <= ops /\ q.seen \subseteq 0 .. ops
  /\ \A r \in q.list : r.ok
  /\ GoneIsOwn(q) /\ SeenIsOff(q) /\ Unused(q)

\* Two requests hold different rows and insert different ones.
Apart(p, q) ==
  /\ LocksOf(p) \cap LocksOf(q) = {}
  /\ p.n /= 0 => p.n /= q.n /\ p.n \notin q.seen

\* Every configuration has its one rule, and the other way round.
Tables ==
  /\ \A c \in Live : configs[c] \in BOOLEAN
  /\ rules \subseteq Rule
  /\ Live \cup IDs(rules) \subseteq 0 .. ops
  /\ \A c \in Live : \E r \in rules : r.cfg = c
  /\ \A r \in rules : r.cfg \in Live
  /\ \A r, s \in rules : r.id = s.id \/ r.cfg = s.cfg => r = s
  /\ referenced \subseteq IDs(rules)
  /\ ops \in 0 .. MaxOps

\* Rules on their way to the engine compile.
Engine ==
  /\ fires \subseteq Rows
  /\ \A r \in engine : r \in Rule /\ r.ok
  /\ \A r \in UNION tick : r \in Rule /\ r.ok
  /\ tick = {} \/ \E list \in tick : tick = {list}
  /\ faults \in 0 .. MaxFaults

\* As long as no two seeds have overlapped, a seed deletes all there is.
OneSeed ==
  /\ \A g, h \in Requests : req[g].op = "seed" /\ req[h].op = "seed" => g = h
  /\ \A c, d \in Live : c = d
  /\ \A h \in Requests : req[h].op = "seed" /\ (req[h].busy \/ req[h].at >= 2) =>
       Live = req[h].todo \cup req[h].del

Serial == overlapped \in BOOLEAN /\ (~overlapped => OneSeed)

ReqInv ==
  /\ req \in [Requests -> Req]
  /\ \A h \in Requests : Own(req[h])
  /\ \A g, h \in Requests : g /= h => Apart(req[g], req[h])

ConfigInv == ReqInv /\ Tables /\ Engine /\ Serial

USE ConfigsAssumption

-----------------------------------------------------------------------------
(***************************************************************************)
(* Requests and their steps.                                               *)
(***************************************************************************)

\* The step a request is at.
LEMMA StepTable ==
  ASSUME NEW h \in InProgress, req[h] \in Req, Shape(req[h])
  PROVE  /\ Step(h) = "find" <=>
              req[h].op \in {"promote", "byID", "custom"} /\ req[h].at = 1
         /\ Step(h) = "off" <=> \/ req[h].op \in {"promote", "byID"} /\ req[h].at = 2
                                \/ req[h].op = "custom" /\ req[h].at = 3
         /\ Step(h) = "on" <=> \/ req[h].op \in {"promote", "byID"} /\ req[h].at = 3
                               \/ req[h].op = "custom" /\ req[h].at = 2
         /\ Step(h) = "delete" <=> req[h].op = "seed" /\ req[h].at = 1
         /\ Step(h) = "cascade" <=> req[h].op = "seed" /\ req[h].at = 2
         /\ Step(h) = "nullify" <=> req[h].op = "custom" /\ req[h].at = 4
         /\ Step(h) = "drop" <=> req[h].op = "custom" /\ req[h].at = 5
         /\ Step(h) = "commit" <=> \/ req[h].op \in {"promote", "byID"} /\ req[h].at = 4
                                   \/ req[h].op = "custom" /\ req[h].at = 6
                                   \/ req[h].op = "seed" /\ req[h].at = 3
         /\ Step(h) = "load" <=> req[h].op = "custom" /\ req[h].at = 7
         /\ Step(h) = "replace" <=> req[h].op = "custom" /\ req[h].at = 8
  <1>1. req[h].op \in Ops /\ req[h].at \in 1 .. 8 /\ req[h].op /= "idle"
    BY DEF Req, InProgress
  <1>2. CASE req[h].op \in {"promote", "byID"}
    <2>1. req[h].at \in 1 .. 4
      BY <1>1, <1>2 DEF Shape
    <2>2. Step(h) = <<"find", "off", "on", "commit">>[req[h].at]
      BY <1>2 DEF Step, Program
    <2> QED
      BY <1>2, <2>1, <2>2
  <1>3. CASE req[h].op = "custom"
    <2>1. Step(h) = <<"find", "on", "off", "nullify", "drop", "commit",
                      "load", "replace">>[req[h].at]
      BY <1>3 DEF Step, Program
    <2> QED
      BY <1>1, <1>3, <2>1
  <1>4. CASE req[h].op = "seed"
    <2>1. req[h].at \in 1 .. 3
      BY <1>1, <1>4 DEF Shape
    <2>2. Step(h) = <<"delete", "cascade", "commit">>[req[h].at]
      BY <1>4 DEF Step, Program
    <2> QED
      BY <1>4, <2>1, <2>2
  <1> QED
    BY <1>1, <1>2, <1>3, <1>4 DEF Ops

\* A request is at one of the steps of its program.
LEMMA AtInProgram ==
  ASSUME NEW q \in Req, Shape(q)
  PROVE  q.at \in DOMAIN Program(q.op)
  <1>1. q.op \in Ops /\ q.at \in 1 .. 8
    BY DEF Req
  <1>2. /\ q.op = "idle" => Program(q.op) = <<"none">>
        /\ q.op \in {"promote", "byID"} => Program(q.op) = <<"find", "off", "on", "commit">>
        /\ q.op = "custom" => Program(q.op) = <<"find", "on", "off", "nullify", "drop",
                                               "commit", "load", "replace">>
        /\ q.op = "seed" => Program(q.op) = <<"delete", "cascade", "commit">>
    BY DEF Program
  <1>3. CASE q.op = "idle"
    BY <1>1, <1>2, <1>3 DEF Shape
  <1>4. CASE q.op \in {"promote", "byID"}
    BY <1>1, <1>2, <1>4 DEF Shape
  <1>5. CASE q.op = "custom"
    BY <1>1, <1>2, <1>5
  <1>6. CASE q.op = "seed"
    BY <1>1, <1>2, <1>6 DEF Shape
  <1> QED
    BY <1>1, <1>3, <1>4, <1>5, <1>6 DEF Ops

\* The oldest configuration that owns a rule is one of them.
LEMMA OldestSeeded ==
  ASSUME Tables, Seeded /= {}
  PROVE  Oldest \in Seeded /\ Oldest \in Live
  <1>1. Seeded \subseteq Nat /\ Seeded \subseteq Live
    BY DEF Tables, Seeded
  <1>2. PICK x \in Seeded : \A y \in Seeded : ~(<<y, x>> \in OpToRel(<, Nat))
    BY <1>1, NatLessThanWellFounded, WFMin
  <1>3. \A y \in Seeded : x <= y
    <2> SUFFICES ASSUME NEW y \in Seeded, y < x PROVE FALSE
      BY <1>1
    <2>1. <<y, x>> \in Nat \X Nat /\ <<y, x>>[1] = y /\ <<y, x>>[2] = x
      BY <1>1
    <2>2. <<y, x>>[1] < <<y, x>>[2]
      BY <2>1
    <2>3. <<y, x>> \in OpToRel(<, Nat)
      BY <2>1, <2>2, Zenon DEF OpToRel
    <2> QED
      BY <1>2, <2>3
  <1>4. \E z \in Seeded : \A y \in Seeded : z <= y
    BY <1>3
  <1>5. Oldest = CHOOSE z \in Seeded : \A y \in Seeded : z <= y
    BY DEF Oldest, Min
  <1> QED
    BY <1>1, <1>4, <1>5

\* An idle slot satisfies everything that is asked of one request.
LEMMA IdleOwn ==
  ASSUME Tables
  PROVE  Own(Idle) /\ LocksOf(Idle) = {} /\ Idle.n = 0 /\ Idle.seen = {} /\ Idle.op = "idle"
  <1>1. Idle \in Req /\ Shape(Idle)
    BY DEF Idle, NewReq, Req, Ops, Rows, Shape, LocksOf
  <1>2. ops \in Nat
    BY DEF Tables
  <1> QED
    BY <1>1, <1>2 DEF Own, Idle, NewReq, LocksOf, GoneIsOwn, SeenIsOff, Unused

\* What is asked of one request does not depend on the other requests.
LEMMA OwnSame ==
  ASSUME NEW q, UNCHANGED <<configs, rules, referenced, ops>>
  PROVE  Own(q)' <=> Own(q)
  BY DEF Own, GoneIsOwn, SeenIsOff, Unused, Live, RulesOf, IDs

\* A step of one request that writes no table.
LEMMA ReqOnly ==
  ASSUME ReqInv, Tables, Serial, NEW h \in Requests, NEW q, Own(q),
         req' = [req EXCEPT ![h] = q],
         UNCHANGED <<configs, rules, referenced, ops, overlapped>>,
         \A g \in Requests \ {h} : LocksOf(q) \cap LocksOf(req[g]) = {},
         q.n \in {0, req[h].n}, q.seen \subseteq req[h].seen \cup Live,
         q.op = "seed" => req[h].op = "seed",
         ~overlapped /\ q.op = "seed" /\ (q.busy \/ q.at >= 2) =>
           Live = q.todo \cup q.del
  PROVE  ReqInv' /\ Tables' /\ Serial'
  <1>1. Tables'
    BY DEF Tables, Live, IDs
  <1>2. /\ req'[h] = q /\ q \in Req /\ req' \in [Requests -> Req]
        /\ \A g \in Requests : g /= h => req'[g] = req[g]
    BY DEF ReqInv, Own
  <1>3. \A g \in Requests : Own(req'[g])
    BY <1>2 DEF ReqInv
  <1>4. \A g \in Requests : Own(req[g])'
    BY <1>3, OwnSame
  <1>5. ASSUME NEW g \in Requests, g /= h
        PROVE  Apart(q, req[g]) /\ Apart(req[g], q)
    <2>1. Apart(req[h], req[g]) /\ Apart(req[g], req[h]) /\ Own(req[g])
      BY <1>5 DEF ReqInv
    <2>2. /\ LocksOf(q) \cap LocksOf(req[g]) = {}
      BY <1>5
    <2>3. q.n /= 0 => q.n /= req[g].n /\ q.n \notin req[g].seen
      BY <2>1 DEF Apart
    <2>4. req[g].n /= 0 => req[g].n /= q.n /\ req[g].n \notin q.seen
      BY <2>1 DEF Apart, Own, Unused
    <2> QED
      BY <2>2, <2>3, <2>4 DEF Apart
  <1>6. \A f, g \in Requests : f /= g => Apart(req'[f], req'[g])
    BY <1>2, <1>5 DEF ReqInv
  <1>7. ReqInv'
    BY <1>2, <1>4, <1>6 DEF ReqInv, Apart, LocksOf
  <1>8. ASSUME ~overlapped PROVE OneSeed'
    <2>1. OneSeed /\ Live' = Live
      BY <1>8 DEF Serial, Live
    <2>2. \A f, g \in Requests : req'[f].op = "seed" /\ req'[g].op = "seed" => f = g
      BY <1>2, <2>1 DEF OneSeed
    <2>3. \A g \in Requests :
            req'[g].op = "seed" /\ (req'[g].busy \/ req'[g].at >= 2) =>
              Live = req'[g].todo \cup req'[g].del
      BY <1>2, <1>8, <2>1 DEF OneSeed
    <2> QED
      BY <2>1, <2>2, <2>3 DEF OneSeed
  <1> QED
    BY <1>1, <1>7, <1>8 DEF Serial

\* A request that ends leaves nothing behind but what it committed.
LEMMA FinishOnly ==
  ASSUME ReqInv, Tables, Serial, NEW h \in Requests, Finish(h),
         UNCHANGED <<configs, rules, referenced, ops, overlapped>>
  PROVE  ReqInv' /\ Tables' /\ Serial'
  <1>1. Own(Idle) /\ LocksOf(Idle) = {} /\ Idle.n = 0 /\ Idle.seen = {} /\ Idle.op = "idle"
    BY IdleOwn
  <1>2. req' = [req EXCEPT ![h] = Idle]
    BY DEF Finish
  <1> QED
    BY <1>1, <1>2, ReqOnly

Onward(q) == [q EXCEPT !.at = @ + 1, !.busy = FALSE]

\* The fields of a request that goes on to its next step.
LEMMA NextFields ==
  ASSUME NEW q \in Req, q.at + 1 \in 1 .. 8
  PROVE  /\ Onward(q) \in Req /\ Onward(q).at = q.at + 1 /\ Onward(q).busy = FALSE
         /\ Onward(q).op = q.op /\ Onward(q).n = q.n /\ Onward(q).cfg = q.cfg
         /\ Onward(q).ok = q.ok /\ Onward(q).seen = q.seen /\ Onward(q).todo = q.todo
         /\ Onward(q).on = q.on /\ Onward(q).off = q.off /\ Onward(q).del = q.del
         /\ Onward(q).nul = q.nul /\ Onward(q).gone = q.gone /\ Onward(q).list = q.list
  BY DEF Onward, Req

-----------------------------------------------------------------------------
(***************************************************************************)
(* The steps of a request before its commit.                               *)
(***************************************************************************)

\* What is known of a request in progress.
LEMMA InProgressOwn ==
  ASSUME ReqInv, NEW h \in InProgress
  PROVE  /\ h \in Requests /\ Own(req[h]) /\ req[h] \in Req /\ Shape(req[h])
         /\ req[h].op /= "idle" /\ req[h].op \in Ops /\ req[h].at \in 1 .. 8
         /\ req[h].busy \in BOOLEAN
  BY DEF ReqInv, InProgress, Own, Req

\* The configuration is looked up.
LEMMA FindKeeps ==
  ASSUME ReqInv, Tables, Serial, NEW h \in Requests, Find(h)
  PROVE  ReqInv' /\ Tables' /\ Serial'
  <1>0. /\ h \in InProgress /\ Step(h) = "find"
        /\ UNCHANGED <<configs, rules, referenced, ops, overlapped>>
    BY DEF Find, At
  <1>1. /\ Own(req[h]) /\ req[h] \in Req /\ Shape(req[h])
        /\ req[h].op \in {"promote", "byID", "custom"} /\ req[h].at = 1
    BY <1>0, InProgressOwn, StepTable
  <1>2. CASE Finish(h)
    BY <1>0, <1>2, FinishOnly
  <1>3. CASE ~Finish(h)
    <2> DEFINE p == [req[h] EXCEPT !.cfg = IF req[h].op = "byID" THEN @ ELSE Oldest]
               q == Onward(p)
    <2>1. /\ req' = [req EXCEPT ![h] = q]
          /\ req[h].op /= "byID" => Seeded /= {}
      BY <1>3 DEF Find, Advance, Onward
    <2>2. /\ p \in Req /\ p.at = 1 /\ p.op = req[h].op /\ p.n = req[h].n
          /\ p.seen = req[h].seen /\ p.todo = req[h].todo /\ p.on = req[h].on
          /\ p.off = req[h].off /\ p.del = req[h].del /\ p.nul = req[h].nul
          /\ p.gone = req[h].gone /\ p.list = req[h].list /\ p.cfg \in Rows
      <3>1. Oldest \in Rows \/ req[h].op = "byID"
        BY <2>1, OldestSeeded DEF Tables, Rows
      <3>2. CASE req[h].op = "byID"
        BY <1>1, <3>2 DEF Req
      <3>3. CASE req[h].op /= "byID"
        BY <1>1, <3>1, <3>3 DEF Req
      <3> QED
        BY <3>2, <3>3
    <2> HIDE DEF p
    <2>3. /\ q \in Req /\ q.at = 2 /\ q.busy = FALSE /\ q.op = req[h].op /\ q.n = req[h].n
          /\ q.seen = req[h].seen /\ q.todo = req[h].todo /\ q.on = req[h].on
          /\ q.off = req[h].off /\ q.del = req[h].del /\ q.nul = req[h].nul
          /\ q.gone = req[h].gone /\ q.list = req[h].list
      <3>1. p.at + 1 \in 1 .. 8 /\ p.at + 1 = 2
        BY <2>2
      <3>2. /\ q \in Req /\ q.at = p.at + 1 /\ q.busy = FALSE /\ q.op = p.op
            /\ q.n = p.n /\ q.seen = p.seen /\ q.todo = p.todo /\ q.on = p.on
            /\ q.off = p.off /\ q.del = p.del /\ q.nul = p.nul /\ q.gone = p.gone
            /\ q.list = p.list
        BY <2>2, <3>1, NextFields, ZenonT(60)
      <3> QED
        BY <2>2, <3>1, <3>2, Zenon
    <2> HIDE DEF q
    <2>4. /\ req[h].seen = {} /\ LocksOf(req[h]) = {} /\ req[h].gone = {}
          /\ req[h].todo = {} /\ req[h].on = {} /\ req[h].off = {} /\ req[h].del = {}
      BY <1>1 DEF Shape, LocksOf
    <2>5. Own(q)
      <3>1. Shape(q)
        BY <1>1, <2>3, <2>4 DEF Shape, LocksOf
      <3> QED
        BY <1>1, <2>3, <2>4, <3>1 DEF Own, GoneIsOwn, SeenIsOff, Unused, LocksOf
    <2> QED
      BY <1>0, <1>1, <2>1, <2>3, <2>4, <2>5, ReqOnly DEF LocksOf
  <1> QED
    BY <1>2, <1>3

\* A statement picks its rows.
LEMMA SnapshotKeeps ==
  ASSUME ReqInv, Tables, Serial, NEW h \in Requests, Snapshot(h)
  PROVE  ReqInv' /\ Tables' /\ Serial'
  <1> DEFINE p == req[h]
             rows == CASE Step(h) = "on"     -> Live \cap {p.cfg}
                       [] Step(h) = "off"    -> Others(p.cfg)
                       [] Step(h) = "delete" -> PriorConfigs
             r == [p EXCEPT !.todo = rows, !.busy = TRUE,
                            !.seen = IF Step(h) = "off" THEN Live ELSE @]
  <1>0. /\ h \in InProgress /\ Step(h) \in {"on", "off", "delete"} /\ ~p.busy
        /\ UNCHANGED <<configs, rules, referenced, ops, overlapped>>
        /\ \/ rows = {} /\ req' = [req EXCEPT ![h] = Onward(r)]
           \/ req' = [req EXCEPT ![h] = r]
    BY DEF Snapshot, At, Advance, Onward
  <1>1. /\ Own(p) /\ p \in Req /\ Shape(p) /\ p.at \in 1 .. 8
        /\ p.op \in Ops /\ p.op /= "idle" /\ Live \subseteq Rows /\ Live \subseteq 0 .. ops
    BY <1>0, InProgressOwn DEF Tables, Rows
  <1>2. /\ Step(h) = "on" => rows = Live \cap {p.cfg}
        /\ Step(h) = "off" => rows = Live \ {p.cfg}
        /\ Step(h) = "delete" => rows = Live
    BY Zenon DEF Others, PriorConfigs
  <1>3. rows \subseteq Live
    BY <1>0, <1>2
  <1> HIDE DEF rows
  <1>4. /\ r \in Req /\ r.at = p.at /\ r.busy = TRUE /\ r.op = p.op /\ r.n = p.n
        /\ r.cfg = p.cfg /\ r.todo = rows /\ r.on = p.on /\ r.off = p.off
        /\ r.del = p.del /\ r.nul = p.nul /\ r.gone = p.gone /\ r.list = p.list
        /\ r.seen = IF Step(h) = "off" THEN Live ELSE p.seen
    <2>1. CASE Step(h) = "off"
      BY <1>1, <1>3, <2>1 DEF Req
    <2>2. CASE Step(h) /= "off"
      BY <1>1, <1>3, <2>2 DEF Req
    <2> QED
      BY <2>1, <2>2
  <1>5. /\ \/ p.op \in {"promote", "byID", "custom"} /\ p.at \in {2, 3}
           \/ p.op = "seed" /\ p.at = 1
        /\ p.todo = {} /\ p.gone = {}
    <2>1. \/ p.op \in {"promote", "byID", "custom"} /\ p.at \in {2, 3}
          \/ p.op = "seed" /\ p.at = 1
      <3>1. h \in InProgress /\ (Step(h) = "on" \/ Step(h) = "off" \/ Step(h) = "delete")
        BY <1>0
      <3>2. /\ Step(h) = "on" => \/ p.op \in {"promote", "byID"} /\ p.at = 3
                                 \/ p.op = "custom" /\ p.at = 2
            /\ Step(h) = "off" => \/ p.op \in {"promote", "byID"} /\ p.at = 2
                                  \/ p.op = "custom" /\ p.at = 3
            /\ Step(h) = "delete" => p.op = "seed" /\ p.at = 1
        BY <1>1, <3>1, StepTable, Zenon
      <3> QED
        BY <3>1, <3>2
    <2> QED
      BY <1>0, <1>1, <2>1 DEF Shape
  <1> HIDE DEF r
  <1>6. ASSUME NEW q \in Req, q.op = p.op, q.n = p.n, q.cfg = p.cfg, q.todo = rows,
               q.on = p.on, q.off = p.off, q.del = p.del, q.nul = p.nul, q.gone = p.gone,
               q.list = p.list, q.seen = IF Step(h) = "off" THEN Live ELSE p.seen,
               \/ q.busy /\ q.at = p.at
               \/ q.busy = FALSE /\ q.at = p.at + 1 /\ rows = {},
               req' = [req EXCEPT ![h] = q]
        PROVE  ReqInv' /\ Tables' /\ Serial'
    <2>1. Shape(q)
      <3>1. CASE p.op \in {"promote", "byID"}
        <4>1. p.at = 3 => rows \subseteq {p.cfg}
          BY <1>0, <1>1, <1>2, <3>1, StepTable
        <4> QED
          BY <1>1, <1>5, <1>6, <3>1, <4>1 DEF Shape, LocksOf
      <3>2. CASE p.op = "custom"
        <4>1. p.at = 2 => rows \subseteq {p.cfg}
          BY <1>0, <1>1, <1>2, <3>2, StepTable
        <4> QED
          BY <1>1, <1>5, <1>6, <3>2, <4>1 DEF Shape, LocksOf
      <3>3. CASE p.op = "seed"
        <4>1. q.seen = {}
          BY <1>0, <1>1, <1>6, <3>3, StepTable DEF Shape
        <4> QED
          BY <1>1, <1>5, <1>6, <3>3, <4>1 DEF Shape, LocksOf
      <3> QED
        BY <1>5, <3>1, <3>2, <3>3
    <2>2. SeenIsOff(q)
      <3>1. CASE Step(h) = "off"
        BY <1>2, <1>6, <3>1 DEF SeenIsOff
      <3>2. CASE Step(h) /= "off"
        BY <1>1, <1>5, <1>6, <3>2 DEF Own, SeenIsOff
      <3> QED
        BY <3>1, <3>2
    <2>3. GoneIsOwn(q)
      BY <1>5, <1>6 DEF GoneIsOwn
    <2>4. /\ Unused(q) /\ q.seen \subseteq 0 .. ops
          /\ q.seen \subseteq p.seen \cup Live
      <3>1. CASE Step(h) = "off"
        BY <1>1, <1>6, <3>1 DEF Own, Unused
      <3>2. CASE Step(h) /= "off"
        BY <1>1, <1>6, <3>2 DEF Own, Unused
      <3> QED
        BY <3>1, <3>2
    <2>5. Own(q) /\ LocksOf(q) = LocksOf(p)
      BY <1>1, <1>6, <2>1, <2>2, <2>3, <2>4 DEF Own, LocksOf
    <2>6. \A g \in Requests \ {h} : LocksOf(q) \cap LocksOf(req[g]) = {}
      BY <2>5 DEF ReqInv, Apart
    <2>7. q.op = "seed" => Live = q.todo \cup q.del
      <3>1. p.op = "seed" => rows = Live
        BY <1>0, <1>1, <1>2, <1>5, StepTable
      <3> QED
        BY <1>1, <1>6, <2>5, <3>1 DEF Own, LocksOf
    <2> QED
      BY <1>0, <1>6, <2>4, <2>5, <2>6, <2>7, ReqOnly
  <1>7. CASE req' = [req EXCEPT ![h] = r]
    BY <1>4, <1>6, <1>7
  <1>8. CASE rows = {} /\ req' = [req EXCEPT ![h] = Onward(r)]
    <2>1. r.at + 1 \in 1 .. 8
      BY <1>4, <1>5
    <2>2. /\ Onward(r) \in Req /\ Onward(r).at = p.at + 1 /\ Onward(r).busy = FALSE
          /\ Onward(r).op = p.op /\ Onward(r).n = p.n /\ Onward(r).cfg = p.cfg
          /\ Onward(r).seen = r.seen /\ Onward(r).todo = rows
          /\ Onward(r).on = p.on /\ Onward(r).off = p.off /\ Onward(r).del = p.del
          /\ Onward(r).nul = p.nul /\ Onward(r).gone = p.gone /\ Onward(r).list = p.list
      BY <1>4, <2>1, NextFields
    <2> QED
      BY <1>4, <1>6, <1>8, <2>2
  <1> QED
    BY <1>0, <1>7, <1>8

\* A statement locks one of its rows.
LEMMA LockRowKeeps ==
  ASSUME ReqInv, Tables, Serial, NEW h \in Requests, NEW c, LockRow(h, c)
  PROVE  ReqInv' /\ Tables' /\ Serial'
  <1> DEFINE p == req[h]
             got == {c} \cap Live
             r == [p EXCEPT !.todo = @ \ {c},
                            !.on  = IF Step(h) = "on" THEN @ \cup got ELSE @,
                            !.off = IF Step(h) = "off" THEN @ \cup got ELSE @,
                            !.del = IF Step(h) = "delete" THEN @ \cup got ELSE @]
  <1>0. /\ h \in InProgress /\ c \in p.todo
        /\ \A g \in Requests \ {h} : c \notin LocksOf(req[g])
        /\ UNCHANGED <<configs, rules, referenced, ops, overlapped>>
        /\ \/ r.todo = {} /\ req' = [req EXCEPT ![h] = Onward(r)]
           \/ r.todo /= {} /\ req' = [req EXCEPT ![h] = r]
    BY DEF LockRow, Advance, Onward, Locks, LocksOf
  <1>1. /\ Own(p) /\ p \in Req /\ Shape(p) /\ p.at \in 1 .. 8 /\ p.busy
        /\ p.op \in Ops /\ p.op /= "idle" /\ Live \subseteq Rows
    <2>1. p.busy
      BY <1>0, InProgressOwn DEF Shape
    <2> QED
      BY <1>0, <2>1, InProgressOwn DEF Tables, Rows
  <1>2. /\ \/ p.op \in {"promote", "byID", "custom"} /\ p.at \in {2, 3}
           \/ p.op = "seed" /\ p.at = 1
        /\ p.gone = {}
    BY <1>1 DEF Shape
  <1>3. /\ Step(h) = "on" <=> \/ p.op \in {"promote", "byID"} /\ p.at = 3
                              \/ p.op = "custom" /\ p.at = 2
        /\ Step(h) = "off" <=> \/ p.op \in {"promote", "byID"} /\ p.at = 2
                               \/ p.op = "custom" /\ p.at = 3
        /\ Step(h) = "delete" <=> p.op = "seed" /\ p.at = 1
    BY <1>0, <1>1, StepTable, Zenon
  <1>4. got \subseteq Live /\ got \subseteq {c}
    OBVIOUS
  <1> HIDE DEF got
  <1>5. /\ r \in Req /\ r.at = p.at /\ r.busy = p.busy /\ r.op = p.op /\ r.n = p.n
        /\ r.cfg = p.cfg /\ r.todo = p.todo \ {c} /\ r.nul = p.nul /\ r.gone = p.gone
        /\ r.list = p.list /\ r.seen = p.seen
        /\ r.on = (IF Step(h) = "on" THEN p.on \cup got ELSE p.on)
        /\ r.off = (IF Step(h) = "off" THEN p.off \cup got ELSE p.off)
        /\ r.del = (IF Step(h) = "delete" THEN p.del \cup got ELSE p.del)
    <2>1. Step(h) = "on" \/ Step(h) = "off" \/ Step(h) = "delete"
      BY <1>2, <1>3
    <2>2. CASE Step(h) = "on"
      BY <1>1, <1>4, <2>2, ZenonT(60) DEF Req
    <2>3. CASE Step(h) = "off"
      BY <1>1, <1>4, <2>3, ZenonT(60) DEF Req
    <2>4. CASE Step(h) = "delete"
      BY <1>1, <1>4, <2>4, ZenonT(60) DEF Req
    <2> QED
      BY <2>1, <2>2, <2>3, <2>4
  <1> HIDE DEF r
  <1>6. ASSUME NEW q \in Req, q.op = p.op, q.n = p.n, q.cfg = p.cfg, q.todo = r.todo,
               q.on = r.on, q.off = r.off, q.del = r.del, q.nul = p.nul, q.gone = p.gone,
               q.list = p.list, q.seen = p.seen,
               \/ q.busy /\ q.at = p.at
               \/ q.busy = FALSE /\ q.at = p.at + 1 /\ r.todo = {},
               req' = [req EXCEPT ![h] = q]
        PROVE  ReqInv' /\ Tables' /\ Serial'
    <2>1. LocksOf(q) \subseteq LocksOf(p) \cup got /\ LocksOf(q) \subseteq Live
      <3>1. LocksOf(q) \subseteq LocksOf(p) \cup got
        BY <1>5, <1>6 DEF LocksOf
      <3> QED
        BY <1>1, <1>4, <3>1 DEF Own
    <2>2. Shape(q)
      <3>1. CASE p.op \in {"promote", "byID"} /\ p.at = 2
        BY <1>1, <1>2, <1>3, <1>5, <1>6, <3>1 DEF Shape, LocksOf
      <3>2. CASE p.op \in {"promote", "byID"} /\ p.at = 3
        BY <1>0, <1>1, <1>2, <1>3, <1>4, <1>5, <1>6, <3>2 DEF Shape, LocksOf
      <3>3. CASE p.op = "custom" /\ p.at = 2
        BY <1>0, <1>1, <1>2, <1>3, <1>4, <1>5, <1>6, <3>3 DEF Shape, LocksOf
      <3>4. CASE p.op = "custom" /\ p.at = 3
        BY <1>1, <1>2, <1>3, <1>5, <1>6, <3>4 DEF Shape, LocksOf
      <3>5. CASE p.op = "seed"
        BY <1>1, <1>2, <1>3, <1>5, <1>6, <3>5 DEF Shape, LocksOf
      <3> QED
        BY <1>2, <3>1, <3>2, <3>3, <3>4, <3>5
    <2>3. SeenIsOff(q)
      <3>1. CASE Step(h) = "off"
        <4>1. q.off = p.off \cup ({c} \cap Live) /\ q.todo = p.todo \ {c}
          BY <1>5, <1>6, <3>1 DEF got
        <4> QED
          BY <1>1, <1>6, <4>1 DEF Own, SeenIsOff
      <3>2. CASE Step(h) = "on"
        <4>1. c = p.cfg
          BY <1>0, <1>1, <1>3, <3>2 DEF Shape
        <4> QED
          BY <1>1, <1>3, <1>5, <1>6, <3>2, <4>1 DEF Own, SeenIsOff
      <3>3. CASE p.op = "seed"
        <4>1. p.seen = {}
          BY <1>1, <3>3 DEF Shape
        <4> QED
          BY <1>6, <4>1 DEF SeenIsOff
      <3> QED
        BY <1>2, <1>3, <3>1, <3>2, <3>3
    <2>4. GoneIsOwn(q)
      BY <1>2, <1>6 DEF GoneIsOwn
    <2>5. Own(q)
      BY <1>1, <1>6, <2>1, <2>2, <2>3, <2>4 DEF Own, Unused
    <2>6. \A g \in Requests \ {h} : LocksOf(q) \cap LocksOf(req[g]) = {}
      BY <1>0, <1>4, <2>1 DEF ReqInv, Apart
    <2>7. ~overlapped /\ q.op = "seed" => Live = q.todo \cup q.del
      <3> SUFFICES ASSUME ~overlapped, p.op = "seed" PROVE Live = q.todo \cup q.del
        BY <1>6
      <3>1. Live = p.todo \cup p.del
        BY <1>1 DEF Serial, OneSeed
      <3>2. q.todo = p.todo \ {c} /\ q.del = p.del \cup ({c} \cap Live)
        BY <1>2, <1>3, <1>5, <1>6 DEF got
      <3> QED
        BY <1>0, <3>1, <3>2
    <2> QED
      BY <1>0, <1>6, <2>5, <2>6, <2>7, ReqOnly
  <1>7. CASE r.todo /= {} /\ req' = [req EXCEPT ![h] = r]
    BY <1>1, <1>5, <1>6, <1>7
  <1>8. CASE r.todo = {} /\ req' = [req EXCEPT ![h] = Onward(r)]
    <2>1. r.at + 1 \in 1 .. 8
      BY <1>2, <1>5
    <2>2. /\ Onward(r) \in Req /\ Onward(r).at = p.at + 1 /\ Onward(r).busy = FALSE
          /\ Onward(r).op = p.op /\ Onward(r).n = p.n /\ Onward(r).cfg = p.cfg
          /\ Onward(r).seen = p.seen /\ Onward(r).todo = r.todo
          /\ Onward(r).on = r.on /\ Onward(r).off = r.off /\ Onward(r).del = r.del
          /\ Onward(r).nul = p.nul /\ Onward(r).gone = p.gone /\ Onward(r).list = p.list
      BY <1>5, <2>1, NextFields
    <2> QED
      BY <1>6, <1>8, <2>2
  <1> QED
    BY <1>0, <1>7, <1>8

\* A step that locks nothing: it may change the references dropped, the rules
\* deleted and the list loaded.
LEMMA QuietKeeps ==
  ASSUME ReqInv, Tables, Serial, NEW h \in InProgress, NEW q \in Req,
         q.op = req[h].op, q.at = req[h].at + 1, q.busy = FALSE, q.n = req[h].n,
         q.cfg = req[h].cfg, q.seen = req[h].seen, q.todo = req[h].todo,
         q.on = req[h].on, q.off = req[h].off, q.del = req[h].del,
         Step(h) \in {"cascade", "nullify", "drop", "load"},
         req' = [req EXCEPT ![h] = q],
         UNCHANGED <<configs, rules, referenced, ops, overlapped>>,
         GoneIsOwn(q),
         q.gone /= {} => Step(h) = "drop" \/ Step(h) = "cascade",
         \A r \in q.list : r.ok
  PROVE  ReqInv' /\ Tables' /\ Serial'
  <1> DEFINE p == req[h]
  <1>1. /\ h \in Requests /\ Own(p) /\ p \in Req /\ Shape(p) /\ p.op \in Ops
        /\ p.op /= "idle" /\ p.at \in 1 .. 8
    BY InProgressOwn
  <1>2. /\ Step(h) = "cascade" <=> p.op = "seed" /\ p.at = 2
        /\ Step(h) = "nullify" <=> p.op = "custom" /\ p.at = 4
        /\ Step(h) = "drop" <=> p.op = "custom" /\ p.at = 5
        /\ Step(h) = "load" <=> p.op = "custom" /\ p.at = 7
    BY <1>1, StepTable, Zenon
  <1>3. Shape(q)
    <2>1. CASE Step(h) = "cascade"
      BY <1>1, <1>2, <2>1 DEF Shape, LocksOf
    <2>2. CASE Step(h) = "nullify"
      BY <1>1, <1>2, <2>2 DEF Shape, LocksOf
    <2>3. CASE Step(h) = "drop"
      BY <1>1, <1>2, <2>3 DEF Shape, LocksOf
    <2>4. CASE Step(h) = "load"
      BY <1>1, <1>2, <2>4 DEF Shape, LocksOf
    <2> QED
      BY <2>1, <2>2, <2>3, <2>4
  <1>4. Own(q) /\ LocksOf(q) = LocksOf(p)
    BY <1>1, <1>3 DEF Own, LocksOf, SeenIsOff, Unused
  <1>5. \A g \in Requests \ {h} : LocksOf(q) \cap LocksOf(req[g]) = {}
    BY <1>1, <1>4 DEF ReqInv, Apart
  <1>6. ~overlapped /\ q.op = "seed" => Live = q.todo \cup q.del
    <2>1. q.op = "seed" => p.op = "seed" /\ p.at = 2
      BY <1>2
    <2>2. ~overlapped /\ p.op = "seed" /\ p.at = 2 => Live = p.todo \cup p.del
      BY <1>1 DEF Serial, OneSeed
    <2> QED
      BY <2>1, <2>2
  <1> QED
    BY <1>1, <1>4, <1>5, <1>6, ReqOnly

\* The ids of rules are ids.
LEMMA RuleIDs ==
  ASSUME Tables, NEW cs
  PROVE  IDs(RulesOf(cs)) \in SUBSET Rows
  BY DEF Tables, IDs, RulesOf, Rule

\* The rules that go with the configurations.
LEMMA CascadeKeeps ==
  ASSUME ReqInv, Tables, Serial, NEW h \in Requests, Cascade(h)
  PROVE  ReqInv' /\ Tables' /\ Serial'
  <1> DEFINE p == req[h]
             doomed == IDs(RulesOf(p.del))
             r == [p EXCEPT !.gone = doomed]
  <1>0. /\ h \in InProgress /\ Step(h) = "cascade"
        /\ UNCHANGED <<configs, rules, referenced, ops, overlapped>>
        /\ \/ Finish(h)
           \/ doomed \cap referenced = {} /\ req' = [req EXCEPT ![h] = Onward(r)]
    BY DEF Cascade, At, Advance, Onward
  <1>1. p \in Req /\ p.op = "seed" /\ p.at = 2 /\ doomed \in SUBSET Rows
    BY <1>0, InProgressOwn, StepTable, RuleIDs
  <1>2. CASE Finish(h)
    BY <1>0, <1>2, FinishOnly
  <1>3. CASE doomed \cap referenced = {} /\ req' = [req EXCEPT ![h] = Onward(r)]
    <2> HIDE DEF doomed
    <2>1. /\ r \in Req /\ r.at + 1 \in 1 .. 8 /\ r.at = p.at /\ r.op = p.op /\ r.n = p.n
          /\ r.cfg = p.cfg /\ r.seen = p.seen /\ r.todo = p.todo /\ r.on = p.on
          /\ r.off = p.off /\ r.del = p.del /\ r.nul = p.nul /\ r.gone = doomed
          /\ r.list = p.list
      BY <1>1 DEF Req
    <2> HIDE DEF r
    <2> DEFINE q == Onward(r)
    <2>2. /\ q \in Req /\ q.at = p.at + 1 /\ q.busy = FALSE /\ q.op = p.op /\ q.n = p.n
          /\ q.cfg = p.cfg /\ q.seen = p.seen /\ q.todo = p.todo /\ q.on = p.on
          /\ q.off = p.off /\ q.del = p.del /\ q.nul = p.nul /\ q.gone = doomed
          /\ q.list = p.list
      BY <2>1, NextFields, ZenonT(60)
    <2> HIDE DEF q
    <2>3. GoneIsOwn(q)
      BY <1>1, <1>3, <2>2 DEF GoneIsOwn, doomed
    <2>4. \A x \in q.list : x.ok
      BY <1>0, <2>2, InProgressOwn DEF Own
    <2> QED
      BY <1>0, <1>3, <2>2, <2>3, <2>4, QuietKeeps DEF q
  <1> QED
    BY <1>0, <1>2, <1>3

\* The references to the rules of a configuration are dropped.
LEMMA NullifyKeeps ==
  ASSUME ReqInv, Tables, Serial, NEW h \in Requests, Nullify(h)
  PROVE  ReqInv' /\ Tables' /\ Serial'
  <1> DEFINE p == req[h]
             nul == IDs(RulesOf({p.cfg})) \cap referenced
             r == [p EXCEPT !.nul = nul]
  <1>0. /\ h \in InProgress /\ Step(h) = "nullify"
        /\ UNCHANGED <<configs, rules, referenced, ops, overlapped>>
        /\ req' = [req EXCEPT ![h] = Onward(r)]
    BY DEF Nullify, At, Advance, Onward
  <1>1. /\ p \in Req /\ p.op = "custom" /\ p.at = 4 /\ nul \in SUBSET Rows
        /\ p.gone = {}
    BY <1>0, InProgressOwn, StepTable, RuleIDs DEF Shape
  <1> HIDE DEF nul
  <1>2. /\ r \in Req /\ r.at + 1 \in 1 .. 8 /\ r.at = p.at /\ r.op = p.op /\ r.n = p.n
        /\ r.cfg = p.cfg /\ r.seen = p.seen /\ r.todo = p.todo /\ r.on = p.on
        /\ r.off = p.off /\ r.del = p.del /\ r.gone = p.gone /\ r.list = p.list
    BY <1>1 DEF Req
  <1> HIDE DEF r
  <1> DEFINE q == Onward(r)
  <1>3. /\ q \in Req /\ q.at = p.at + 1 /\ q.busy = FALSE /\ q.op = p.op /\ q.n = p.n
        /\ q.cfg = p.cfg /\ q.seen = p.seen /\ q.todo = p.todo /\ q.on = p.on
        /\ q.off = p.off /\ q.del = p.del /\ q.gone = p.gone /\ q.list = p.list
    BY <1>2, NextFields, ZenonT(60)
  <1> HIDE DEF q
  <1>4. GoneIsOwn(q)
    BY <1>1, <1>3 DEF GoneIsOwn
  <1>5. \A x \in q.list : x.ok
    BY <1>0, <1>3, InProgressOwn DEF Own
  <1>6. q.gone = {}
    BY <1>1, <1>3
  <1> QED
    BY <1>0, <1>3, <1>4, <1>5, <1>6, QuietKeeps DEF q

\* The rules a document replaces are deleted.
LEMMA DropKeeps ==
  ASSUME ReqInv, Tables, Serial, NEW h \in Requests, Drop(h)
  PROVE  ReqInv' /\ Tables' /\ Serial'
  <1> DEFINE p == req[h]
             doomed == IDs(RulesOf({p.cfg}))
             r == [p EXCEPT !.gone = doomed]
  <1>0. /\ h \in InProgress /\ Step(h) = "drop"
        /\ UNCHANGED <<configs, rules, referenced, ops, overlapped>>
        /\ \/ Finish(h)
           \/ /\ doomed \cap referenced \subseteq p.nul
              /\ req' = [req EXCEPT ![h] = Onward(r)]
    <2>1. Replaced(p.cfg) = doomed
      BY DEF Replaced
    <2> HIDE DEF doomed
    <2> QED
      BY <2>1 DEF Drop, At, Advance, Onward
  <1>1. p \in Req /\ p.op = "custom" /\ p.at = 5 /\ doomed \in SUBSET Rows
    BY <1>0, InProgressOwn, StepTable, RuleIDs
  <1>2. CASE Finish(h)
    BY <1>0, <1>2, FinishOnly
  <1>3. CASE doomed \cap referenced \subseteq p.nul /\ req' = [req EXCEPT ![h] = Onward(r)]
    <2> HIDE DEF doomed
    <2>1. /\ r \in Req /\ r.at + 1 \in 1 .. 8 /\ r.at = p.at /\ r.op = p.op /\ r.n = p.n
          /\ r.cfg = p.cfg /\ r.seen = p.seen /\ r.todo = p.todo /\ r.on = p.on
          /\ r.off = p.off /\ r.del = p.del /\ r.nul = p.nul /\ r.gone = doomed
          /\ r.list = p.list
      BY <1>1 DEF Req
    <2> HIDE DEF r
    <2> DEFINE q == Onward(r)
    <2>2. /\ q \in Req /\ q.at = p.at + 1 /\ q.busy = FALSE /\ q.op = p.op /\ q.n = p.n
          /\ q.cfg = p.cfg /\ q.seen = p.seen /\ q.todo = p.todo /\ q.on = p.on
          /\ q.off = p.off /\ q.del = p.del /\ q.nul = p.nul /\ q.gone = doomed
          /\ q.list = p.list
      BY <2>1, NextFields, ZenonT(60)
    <2> HIDE DEF q
    <2>3. GoneIsOwn(q)
      BY <1>1, <1>3, <2>2 DEF GoneIsOwn, doomed
    <2>4. \A x \in q.list : x.ok
      BY <1>0, <2>2, InProgressOwn DEF Own
    <2> QED
      BY <1>0, <1>3, <2>2, <2>3, <2>4, QuietKeeps DEF q
  <1> QED
    BY <1>0, <1>2, <1>3

\* A list the loader returns holds rules that compile.
LEMMA LoadCompiles ==
  ASSUME Tables
  PROVE  loadRulesFromPG \in SUBSET Rule /\ \A r \in loadRulesFromPG : r.ok
  BY DEF Tables, loadRulesFromPG, RulesOf, Compiled

\* The handler loads the rules for the engine.
LEMMA ReqLoadKeeps ==
  ASSUME ReqInv, Tables, Serial, NEW h \in Requests, ReqLoad(h)
  PROVE  ReqInv' /\ Tables' /\ Serial'
  <1> DEFINE p == req[h]
             list == loadRulesFromPG
             r == [p EXCEPT !.list = list]
  <1>0. /\ h \in InProgress /\ Step(h) = "load"
        /\ UNCHANGED <<configs, rules, referenced, ops, overlapped>>
        /\ req' = [req EXCEPT ![h] = Onward(r)]
    BY DEF ReqLoad, At, Advance, Onward
  <1>1. /\ p \in Req /\ p.op = "custom" /\ p.at = 7 /\ list \in SUBSET Rule
        /\ p.gone = {} /\ \A x \in list : x.ok
    BY <1>0, InProgressOwn, StepTable, LoadCompiles DEF Shape
  <1> HIDE DEF list
  <1>2. /\ r \in Req /\ r.at + 1 \in 1 .. 8 /\ r.at = p.at /\ r.op = p.op /\ r.n = p.n
        /\ r.cfg = p.cfg /\ r.seen = p.seen /\ r.todo = p.todo /\ r.on = p.on
        /\ r.off = p.off /\ r.del = p.del /\ r.gone = p.gone /\ r.list = list
    BY <1>1 DEF Req
  <1> HIDE DEF r
  <1> DEFINE q == Onward(r)
  <1>3. /\ q \in Req /\ q.at = p.at + 1 /\ q.busy = FALSE /\ q.op = p.op /\ q.n = p.n
        /\ q.cfg = p.cfg /\ q.seen = p.seen /\ q.todo = p.todo /\ q.on = p.on
        /\ q.off = p.off /\ q.del = p.del /\ q.gone = p.gone /\ q.list = list
    BY <1>2, NextFields, ZenonT(60)
  <1> HIDE DEF q
  <1>4. GoneIsOwn(q)
    BY <1>1, <1>3 DEF GoneIsOwn
  <1>5. q.gone = {} /\ \A x \in q.list : x.ok
    BY <1>1, <1>3
  <1> QED
    BY <1>0, <1>3, <1>4, <1>5, QuietKeeps DEF q

-----------------------------------------------------------------------------
(***************************************************************************)
(* A request starts, and the steps that end requests.                      *)
(***************************************************************************)

\* A new request takes an idle slot and a number of its own.
LEMMA StartKeeps ==
  ASSUME ReqInv, Tables, Serial, NEW h, NEW op \in Ops \ {"idle"}, NEW cfg,
         NEW ok \in BOOLEAN, StartReq(h, NewReq(op, ops + 1, cfg, ok)),
         cfg \in Live \cup {0, ops + 1}, op = "seed" => cfg = ops + 1
  PROVE  ReqInv' /\ Tables' /\ Serial'
  <1>0. PICK q : q = NewReq(op, ops + 1, cfg, ok)
    OBVIOUS
  <1>1. /\ h \in Requests /\ h \notin InProgress /\ ops < MaxOps /\ ops' = ops + 1
        /\ req' = [req EXCEPT ![h] = q]
        /\ overlapped' = (overlapped \/ (op = "seed"
                            /\ \E g \in InProgress : req[g].op = "seed"))
        /\ UNCHANGED <<configs, rules, referenced>>
    <2>1. \E g \in Requests : g \notin InProgress
      BY DEF StartReq, InProgress
    <2> QED
      BY <1>0, <2>1 DEF StartReq, NewReq
  <1>2. /\ ops \in Nat /\ ops + 1 \in 0 .. MaxOps /\ Live \cup IDs(rules) \subseteq 0 .. ops
        /\ cfg \in Rows /\ ops + 1 \in Rows
    BY <1>1 DEF Tables, Rows
  <1>3. /\ q.op = op /\ q.n = ops + 1 /\ q.at = 1 /\ q.cfg = cfg /\ q.ok = ok
        /\ q.seen = {} /\ q.busy = FALSE /\ q.todo = {} /\ q.on = {} /\ q.off = {}
        /\ q.del = {} /\ q.nul = {} /\ q.gone = {} /\ q.list = {}
    BY <1>0 DEF NewReq
  <1>4. q \in Req
    BY <1>0, <1>2 DEF NewReq, Req
  <1>5. Live' = Live /\ \A cs : RulesOf(cs)' = RulesOf(cs)
    BY <1>1 DEF Live, RulesOf
  <1>6. Own(q)'
    <2>1. Shape(q)
      BY <1>2, <1>3 DEF Shape, LocksOf
    <2>2. Unused(q)'
      BY <1>1, <1>2, <1>3, <1>5 DEF Unused, IDs
    <2> QED
      BY <1>1, <1>2, <1>3, <1>4, <1>5, <2>1, <2>2 DEF Own, LocksOf, GoneIsOwn, SeenIsOff
  <1>7. \A g \in Requests : g /= h => req'[g] = req[g]
    BY <1>1 DEF ReqInv
  <1>8. req'[h] = q /\ req' \in [Requests -> Req]
    BY <1>1, <1>4 DEF ReqInv
  <1>9. ASSUME NEW g \in Requests, g /= h
        PROVE  Own(req[g])' /\ Apart(q, req[g]) /\ Apart(req[g], q)
    <2>1. Own(req[g]) /\ req'[g] = req[g] /\ req[g].n \in Nat
      BY <1>7, <1>9 DEF ReqInv, Own, Req, Rows
    <2>2. /\ GoneIsOwn(req[g])' /\ SeenIsOff(req[g])' /\ Unused(req[g])'
      <3>1. IDs(rules)' = IDs(rules)
        BY <1>1 DEF IDs
      <3>2. \A cs : IDs(RulesOf(cs))' = IDs(RulesOf(cs))
        BY <1>1 DEF IDs, RulesOf
      <3> QED
        BY <1>1, <1>5, <2>1, <3>1, <3>2 DEF Own, GoneIsOwn, SeenIsOff, Unused
    <2>3. Own(req[g])'
      BY <1>1, <1>2, <1>5, <2>1, <2>2 DEF Own, LocksOf, Shape
    <2>4. Apart(q, req[g]) /\ Apart(req[g], q)
      BY <1>2, <1>3, <2>1 DEF Apart, LocksOf, Own
    <2> QED
      BY <2>3, <2>4
  <1>10. \A g \in Requests : Own(req[g])'
    BY <1>6, <1>8, <1>9
  <1>11. \A f, g \in Requests : f /= g => Apart(req'[f], req'[g])
    BY <1>7, <1>8, <1>9 DEF ReqInv
  <1>12. ReqInv'
    BY <1>8, <1>10, <1>11 DEF ReqInv, Apart, LocksOf
  <1>13. Tables'
    BY <1>1, <1>2 DEF Tables, Live, IDs
  <1>14. ASSUME ~overlapped' PROVE OneSeed'
    <2>1. OneSeed
      BY <1>1, <1>14 DEF Serial
    <2>2. op = "seed" => \A g \in Requests : req[g].op /= "seed"
      BY <1>1, <1>14 DEF InProgress
    <2>3. \A f, g \in Requests : req'[f].op = "seed" /\ req'[g].op = "seed" => f = g
      BY <1>3, <1>7, <1>8, <2>1, <2>2 DEF OneSeed
    <2>4. \A g \in Requests :
            req'[g].op = "seed" /\ (req'[g].busy \/ req'[g].at >= 2) =>
              Live = req'[g].todo \cup req'[g].del
      BY <1>3, <1>7, <1>8, <2>1 DEF OneSeed
    <2> QED
      BY <1>5, <2>1, <2>3, <2>4 DEF OneSeed
  <1>15. overlapped' \in BOOLEAN
    BY <1>1 DEF Serial
  <1> QED
    BY <1>12, <1>13, <1>14, <1>15 DEF Serial

\* The service stops, and with it all its requests.
LEMMA RestartKeeps ==
  ASSUME ReqInv, Tables, Serial, Restart
  PROVE  ReqInv' /\ Tables' /\ Serial'
  <1>1. /\ req' = [h \in Requests |-> IF req[h].op = "seed" THEN req[h] ELSE Idle]
        /\ UNCHANGED <<configs, rules, referenced, ops, overlapped>>
    BY DEF Restart
  <1>2. Own(Idle) /\ LocksOf(Idle) = {} /\ Idle.n = 0 /\ Idle.seen = {} /\ Idle.op = "idle"
    BY IdleOwn
  <1>3. \A h \in Requests : req'[h] = req[h] \/ req'[h] = Idle
    BY <1>1
  <1>4. Idle \in Req /\ req' \in [Requests -> Req]
    BY <1>1, <1>2 DEF ReqInv, Own
  <1>5. \A h \in Requests : Own(req'[h])
    BY <1>2, <1>3 DEF ReqInv
  <1>6. \A h \in Requests : Own(req[h])'
    BY <1>1, <1>5, OwnSame
  <1>7. ASSUME NEW g \in Requests, NEW h \in Requests, g /= h
        PROVE  Apart(req'[g], req'[h])
    <2>1. Apart(req[g], req[h])
      BY <1>7 DEF ReqInv
    <2> QED
      BY <1>2, <1>3, <2>1 DEF Apart
  <1>8. ReqInv'
    BY <1>4, <1>6, <1>7 DEF ReqInv, Apart, LocksOf
  <1>9. Tables'
    BY <1>1 DEF Tables, Live, IDs
  <1>10. ASSUME ~overlapped PROVE OneSeed'
    <2>1. OneSeed /\ Live' = Live
      BY <1>1, <1>10 DEF Serial, Live
    <2>2. \A h \in Requests : req'[h].op = "seed" => req'[h] = req[h]
      BY <1>2, <1>3
    <2> QED
      BY <2>1, <2>2 DEF OneSeed
  <1> QED
    BY <1>1, <1>8, <1>9, <1>10 DEF Serial

-----------------------------------------------------------------------------
(***************************************************************************)
(* Triggers.                                                               *)
(***************************************************************************)

\* A trigger is inserted: its rule has a row nobody is about to delete.
LEMMA InsertKeeps ==
  ASSUME ReqInv, Tables, Serial, NEW id, InsertTrigger(id)
  PROVE  ReqInv' /\ Tables' /\ Serial'
  <1>1. /\ \A h \in Requests : id \notin req[h].gone
        /\ UNCHANGED <<configs, rules, ops, overlapped>>
    <2>1. \A h \in Requests : h \notin InProgress => req[h].gone = {}
      BY DEF ReqInv, Own, Shape, InProgress
    <2> QED
      BY <2>1 DEF InsertTrigger
  <1>2. CASE UNCHANGED <<referenced, req>>
    <2>1. \A h \in Requests : Own(req[h])' /\ Own(req[h])
      BY <1>1, <1>2 DEF ReqInv, Own, GoneIsOwn, SeenIsOff, Unused, Live, RulesOf, IDs
    <2> QED
      BY <1>1, <1>2, <2>1 DEF ReqInv, Tables, Serial, OneSeed, Live, IDs, Apart, LocksOf
  <1>3. CASE /\ id \in IDs(rules) /\ referenced' = referenced \cup {id}
             /\ req' = [h \in Requests |-> [req[h] EXCEPT !.nul = @ \ {id}]]
    <2>1. ASSUME NEW h \in Requests
          PROVE  /\ req'[h] \in Req /\ req'[h].op = req[h].op /\ req'[h].n = req[h].n
                 /\ req'[h].at = req[h].at /\ req'[h].cfg = req[h].cfg
                 /\ req'[h].seen = req[h].seen /\ req'[h].busy = req[h].busy
                 /\ req'[h].todo = req[h].todo /\ req'[h].on = req[h].on
                 /\ req'[h].off = req[h].off /\ req'[h].del = req[h].del
                 /\ req'[h].nul = req[h].nul \ {id} /\ req'[h].gone = req[h].gone
                 /\ req'[h].list = req[h].list
      BY <1>3 DEF ReqInv, Req
    <2>2. ASSUME NEW h \in Requests PROVE Own(req[h])'
      <3>1. /\ Own(req[h]) /\ id \notin req[h].gone
        BY <1>1 DEF ReqInv
      <3>2. Shape(req'[h]) /\ LocksOf(req'[h]) = LocksOf(req[h])
        BY <2>1, <3>1 DEF Own, Shape, LocksOf
      <3>3. GoneIsOwn(req[h])'
        <4>1. \A cs : IDs(RulesOf(cs))' = IDs(RulesOf(cs))
          BY <1>1 DEF IDs, RulesOf
        <4>2. req'[h].gone \cap referenced' \subseteq req'[h].nul
          BY <1>3, <2>1, <3>1 DEF Own, GoneIsOwn
        <4>3. /\ req'[h].op = "custom" /\ req'[h].at = 6 /\ req'[h].on /= {}
                 => req'[h].gone = IDs(RulesOf({req[h].cfg}))'
              /\ req'[h].op = "seed" /\ req'[h].at = 3
                 => req'[h].gone = IDs(RulesOf(req[h].del))'
          <5>1. /\ req[h].op = "custom" /\ req[h].at = 6 /\ req[h].on /= {}
                   => req[h].gone = IDs(RulesOf({req[h].cfg}))
                /\ req[h].op = "seed" /\ req[h].at = 3
                   => req[h].gone = IDs(RulesOf(req[h].del))
            BY <3>1 DEF Own, GoneIsOwn
          <5>2. IDs(RulesOf({req[h].cfg}))' = IDs(RulesOf({req[h].cfg}))
            BY <1>1, <2>1 DEF IDs, RulesOf
          <5>3. IDs(RulesOf(req[h].del))' = IDs(RulesOf(req[h].del))
            BY <1>1, <2>1 DEF IDs, RulesOf
          <5> QED
            BY <2>1, <5>1, <5>2, <5>3
        <4> QED
          BY <4>2, <4>3 DEF GoneIsOwn
      <3>4. SeenIsOff(req[h])' /\ Unused(req[h])'
        BY <1>1, <2>1, <3>1 DEF Own, SeenIsOff, Unused, Live, IDs
      <3> QED
        BY <1>1, <2>1, <3>1, <3>2, <3>3, <3>4 DEF Own, Live, LocksOf, Shape
    <2>3. ASSUME NEW g \in Requests, NEW h \in Requests, g /= h
          PROVE  Apart(req'[g], req'[h])
      <3>1. Apart(req[g], req[h])
        BY <2>3 DEF ReqInv
      <3> QED
        BY <2>1, <3>1 DEF Apart, LocksOf
    <2>4. req' \in [Requests -> Req]
      BY <1>3, <2>1
    <2>5. ReqInv'
      BY <2>2, <2>3, <2>4 DEF ReqInv, Apart, LocksOf
    <2>6. Tables'
      BY <1>1, <1>3 DEF Tables, Live, IDs
    <2>7. Serial'
      BY <1>1, <2>1 DEF Serial, OneSeed, Live
    <2> QED
      BY <2>5, <2>6, <2>7
  <1> QED
    BY <1>2, <1>3 DEF InsertTrigger

\* The reset deletes the triggers.
LEMMA ResetKeeps ==
  ASSUME ReqInv, Tables, Serial, DemoReset
  PROVE  ReqInv' /\ Tables' /\ Serial'
  <1>1. /\ referenced' = {} /\ UNCHANGED <<configs, rules, req, ops, overlapped>>
    BY DEF DemoReset
  <1>2. ASSUME NEW h \in Requests PROVE Own(req[h])'
    <2>1. Own(req[h]) /\ req'[h] = req[h]
      BY <1>1 DEF ReqInv
    <2>2. GoneIsOwn(req[h])'
      BY <1>1, <2>1 DEF Own, GoneIsOwn, IDs, RulesOf
    <2>3. SeenIsOff(req[h])' /\ Unused(req[h])'
      BY <1>1, <2>1 DEF Own, SeenIsOff, Unused, Live, IDs
    <2> QED
      BY <1>1, <2>1, <2>2, <2>3 DEF Own, Live, LocksOf, Shape
  <1>3. ReqInv'
    BY <1>1, <1>2 DEF ReqInv, Apart, LocksOf
  <1>4. Tables'
    BY <1>1 DEF Tables, Live, IDs
  <1>5. Serial'
    BY <1>1 DEF Serial, OneSeed, Live
  <1> QED
    BY <1>3, <1>4, <1>5

-----------------------------------------------------------------------------
(***************************************************************************)
(* The commit.  Dead(q) are the configurations whose rules the transaction *)
(* deletes, New(q) those it inserts, and Doc(q) the rules it inserts.      *)
(***************************************************************************)
Dead(q) == CASE q.op = "custom" -> {q.cfg} [] q.op = "seed" -> q.del [] OTHER -> {}
New(q) == IF q.op = "seed" THEN {q.cfg} ELSE {}
Doc(q) == IF q.op \in {"seed", "custom"}
          THEN {[id |-> q.n, cfg |-> q.cfg, ok |-> q.ok]} ELSE {}

\* A transaction that reaches its commit with its row.
Committing(q) ==
  /\ q.op \in {"promote", "byID", "custom", "seed"}
  /\ q.op \in {"promote", "byID"} => q.at = 4
  /\ q.op = "custom" => q.at = 6 /\ q.on /= {}
  /\ q.op = "seed" => q.at = 3

\* What such a transaction writes.
Writes(q) ==
  /\ configs' = [c \in (Live \ q.del) \cup New(q) |->
                   c \in q.on \cup New(q) \/ (c \notin q.off /\ configs[c])]
  /\ rules' = {r \in rules : r.id \notin q.gone} \cup Doc(q)
  /\ referenced' = referenced \ q.nul

\* It deletes the rules of rows it holds, and inserts those of a row it holds
\* or of one that is new.
LEMMA CommitRows ==
  ASSUME Tables, NEW q, Own(q), Committing(q)
  PROVE  /\ q.gone = IDs(RulesOf(Dead(q))) /\ Dead(q) \subseteq LocksOf(q)
         /\ Dead(q) \subseteq Live /\ q.del \subseteq Dead(q)
         /\ {r \in rules : r.id \notin q.gone} = {r \in rules : r.cfg \notin Dead(q)}
         /\ \A r \in Doc(q) : /\ r \in Rule /\ r.id = q.n /\ r.cfg = q.cfg /\ q.n /= 0
                              /\ r.cfg \in Dead(q) \/ (r.cfg = q.n /\ r.cfg \in New(q))
         /\ \A c \in New(q) : c = q.n /\ q.n /= 0 /\ q.n \notin Live
         /\ Doc(q) = {} \/ \E r : Doc(q) = {r}
  <1>1. q \in Req /\ Shape(q) /\ LocksOf(q) \subseteq Live /\ GoneIsOwn(q) /\ Unused(q)
    BY DEF Own
  <1>2. /\ q.op = "custom" => Dead(q) = {q.cfg} /\ q.on = {q.cfg} /\ q.n /= 0 /\ q.del = {}
        /\ q.op = "seed" => Dead(q) = q.del /\ q.cfg = q.n /\ q.n /= 0
        /\ q.op \in {"promote", "byID"} => Dead(q) = {} /\ q.gone = {} /\ q.del = {}
    <2>1. q.op = "custom" => Dead(q) = {q.cfg}
      BY DEF Dead
    <2>2. q.op = "seed" => Dead(q) = q.del
      BY DEF Dead
    <2>3. q.op \in {"promote", "byID"} => Dead(q) = {}
      BY DEF Dead
    <2>4. q.op = "custom" => q.on = {q.cfg} /\ q.n /= 0 /\ q.del = {}
      BY <1>1 DEF Shape, Committing
    <2>5. q.op = "seed" => q.cfg = q.n /\ q.n /= 0
      BY <1>1 DEF Shape
    <2>6. q.op \in {"promote", "byID"} => q.gone = {} /\ q.del = {}
      BY <1>1 DEF Shape
    <2> QED
      BY <2>1, <2>2, <2>3, <2>4, <2>5, <2>6
  <1>3. q.gone = IDs(RulesOf(Dead(q)))
    <2>1. IDs(RulesOf({})) = {}
      BY DEF IDs, RulesOf
    <2>2. CASE q.op = "custom"
      BY <1>1, <1>2, <2>2 DEF GoneIsOwn, Committing
    <2>3. CASE q.op = "seed"
      BY <1>1, <1>2, <2>3 DEF GoneIsOwn, Committing
    <2>4. CASE q.op \in {"promote", "byID"}
      BY <1>2, <2>1, <2>4
    <2> QED
      BY <2>2, <2>3, <2>4 DEF Committing
  <1>4. Dead(q) \subseteq LocksOf(q) /\ q.del \subseteq Dead(q)
    BY <1>2 DEF Committing, LocksOf
  <1>5. ASSUME NEW r \in rules PROVE r.id \in q.gone <=> r.cfg \in Dead(q)
    <2>1. r.id \in q.gone <=> \E s \in rules : s.cfg \in Dead(q) /\ s.id = r.id
      BY <1>3 DEF IDs, RulesOf
    <2> QED
      BY <2>1 DEF Tables
  <1>6. \A r \in Doc(q) : /\ r \in Rule /\ r.id = q.n /\ r.cfg = q.cfg /\ q.n /= 0
                          /\ r.cfg \in Dead(q) \/ (r.cfg = q.n /\ r.cfg \in New(q))
    <2> SUFFICES ASSUME NEW r \in Doc(q)
                 PROVE  /\ r \in Rule /\ r.id = q.n /\ r.cfg = q.cfg /\ q.n /= 0
                        /\ r.cfg \in Dead(q) \/ (r.cfg = q.n /\ r.cfg \in New(q))
      OBVIOUS
    <2>1. q.op \in {"seed", "custom"} /\ r = [id |-> q.n, cfg |-> q.cfg, ok |-> q.ok]
      BY DEF Doc
    <2>2. r \in Rule /\ r.id = q.n /\ r.cfg = q.cfg
      BY <1>1, <2>1 DEF Rule, Req
    <2> QED
      BY <1>2, <2>1, <2>2 DEF New
  <1>7. \A c \in New(q) : c = q.n /\ q.n /= 0 /\ q.n \notin Live
    BY <1>1, <1>2 DEF New, Unused
  <1>8. Doc(q) = {} \/ \E r : Doc(q) = {r}
    BY DEF Doc
  <1> QED
    BY <1>1, <1>3, <1>4, <1>5, <1>6, <1>7, <1>8

\* The tables after a commit.
LEMMA CommitTables ==
  ASSUME Tables, NEW q, Own(q), Committing(q), Writes(q), UNCHANGED ops
  PROVE  /\ Tables' /\ Live' = (Live \ q.del) \cup New(q)
         /\ rules' = {r \in rules : r.cfg \notin Dead(q)} \cup Doc(q)
  <1>1. /\ Dead(q) \subseteq Live /\ q.del \subseteq Dead(q)
        /\ {r \in rules : r.id \notin q.gone} = {r \in rules : r.cfg \notin Dead(q)}
        /\ \A r \in Doc(q) : /\ r \in Rule /\ r.id = q.n /\ r.cfg = q.cfg /\ q.n /= 0
                             /\ r.cfg \in Dead(q) \/ (r.cfg = q.n /\ r.cfg \in New(q))
        /\ \A c \in New(q) : c = q.n /\ q.n /= 0 /\ q.n \notin Live
        /\ Doc(q) = {} \/ \E r : Doc(q) = {r}
    BY CommitRows
  <1>2. Live' = (Live \ q.del) \cup New(q)
    BY DEF Writes, Live
  <1>3. rules' = {r \in rules : r.cfg \notin Dead(q)} \cup Doc(q)
    BY <1>1 DEF Writes
  <1>4. q.n \in 0 .. ops /\ (q.n /= 0 => q.n \notin Live /\ q.n \notin IDs(rules))
    BY DEF Own, Req, Rows, Unused, Tables
  <1>5. /\ q.op = "custom" => Dead(q) = {q.cfg} /\ q.del = {} /\ \E r \in Doc(q) : r.cfg = q.cfg
        /\ q.op = "seed" => Dead(q) = q.del /\ New(q) = {q.cfg}
                            /\ \E r \in Doc(q) : r.cfg = q.cfg
        /\ q.op \in {"promote", "byID"} => Dead(q) = {} /\ New(q) = {}
        /\ q.op \in {"promote", "byID", "custom", "seed"}
        /\ q.op /= "seed" => New(q) = {}
    <2>1. q.op = "custom" => Dead(q) = {q.cfg} /\ q.del = {}
      BY DEF Dead, Own, Shape
    <2>2. q.op = "seed" => Dead(q) = q.del
      BY DEF Dead
    <2>3. q.op \in {"promote", "byID"} => Dead(q) = {}
      BY DEF Dead
    <2>4. q.op \in {"seed", "custom"} => \E r \in Doc(q) : r.cfg = q.cfg
      BY DEF Doc
    <2> QED
      BY <2>1, <2>2, <2>3, <2>4 DEF New, Committing
  <1>6. \A c \in Live' : configs'[c] \in BOOLEAN
    <2> SUFFICES ASSUME NEW c \in (Live \ q.del) \cup New(q) PROVE configs'[c] \in BOOLEAN
      BY <1>2
    <2>1. configs'[c] = (c \in q.on \cup New(q) \/ (c \notin q.off /\ configs[c]))
      BY DEF Writes
    <2> QED
      BY <2>1
  <1>7. rules' \subseteq Rule
    BY <1>1, <1>3 DEF Tables
  <1>8. Live' \subseteq 0 .. ops
    BY <1>1, <1>2, <1>4 DEF Tables
  <1>9. IDs(rules)' \subseteq 0 .. ops
    BY <1>1, <1>3, <1>4 DEF Tables, IDs
  <1>10. \A c \in Live' : \E r \in rules' : r.cfg = c
    <2> SUFFICES ASSUME NEW c \in Live' PROVE \E r \in rules' : r.cfg = c
      OBVIOUS
    <2>1. CASE c \in Live /\ c \notin Dead(q)
      BY <1>3, <2>1 DEF Tables
    <2>2. CASE c \in Dead(q) /\ c \notin q.del
      BY <1>3, <1>5, <2>2
    <2>3. CASE c \in New(q)
      BY <1>3, <1>5, <2>3
    <2> QED
      BY <1>2, <2>1, <2>2, <2>3
  <1>11. \A r \in rules' : r.cfg \in Live'
    <2> SUFFICES ASSUME NEW r \in rules' PROVE r.cfg \in Live'
      OBVIOUS
    <2>1. CASE r \in rules /\ r.cfg \notin Dead(q)
      BY <1>1, <1>2, <2>1 DEF Tables
    <2>2. CASE r \in Doc(q)
      <3>1. CASE r.cfg \in New(q)
        BY <1>2, <3>1
      <3>2. CASE r.cfg \in Dead(q) /\ r.cfg \notin New(q)
        <4>1. q.op = "custom"
          BY <1>1, <1>5, <2>2, <3>2
        <4> QED
          BY <1>1, <1>2, <1>5, <3>2, <4>1
      <3> QED
        BY <1>1, <2>2, <3>1, <3>2
    <2> QED
      BY <1>3, <2>1, <2>2
  <1>12. \A r, s \in rules' : r.id = s.id \/ r.cfg = s.cfg => r = s
    <2>1. ASSUME NEW r \in rules, r.cfg \notin Dead(q), NEW s \in Doc(q)
          PROVE  r.id /= s.id /\ r.cfg /= s.cfg
      <3>1. r.id \in IDs(rules) /\ r.cfg \in Live
        BY DEF IDs, Tables
      <3> QED
        BY <1>1, <1>4, <2>1, <3>1
    <2>2. \A r, s \in Doc(q) : r = s
      BY <1>1
    <2>3. \A r, s \in rules : r.id = s.id \/ r.cfg = s.cfg => r = s
      BY DEF Tables
    <2> QED
      BY <1>3, <2>1, <2>2, <2>3
  <1>13. referenced' \subseteq IDs(rules)'
    <2> SUFFICES ASSUME NEW i \in referenced' PROVE i \in IDs(rules)'
      OBVIOUS
    <2>1. i \in referenced /\ i \notin q.nul
      BY DEF Writes
    <2>2. i \notin q.gone
      BY <2>1 DEF Own, GoneIsOwn
    <2>3. PICK r \in rules : r.id = i
      BY <2>1 DEF Tables, IDs
    <2> QED
      BY <2>2, <2>3 DEF Writes, IDs
  <1>14. Tables'
    BY <1>6, <1>7, <1>8, <1>9, <1>10, <1>11, <1>12, <1>13 DEF Tables
  <1> QED
    BY <1>2, <1>3, <1>14

\* What is asked of another request is not disturbed by a commit: its rows and
\* their rules are untouched, and its number is still unused.
LEMMA CommitOther ==
  ASSUME Tables, NEW p, Own(p), Committing(p), Writes(p), UNCHANGED ops,
         NEW q, Own(q), Apart(p, q), Apart(q, p)
  PROVE  /\ LocksOf(q) \subseteq Live' /\ SeenIsOff(q)' /\ Unused(q)'
         /\ GoneIsOwn(q)'
  <1>1. /\ Live' = (Live \ p.del) \cup New(p)
        /\ rules' = {r \in rules : r.cfg \notin Dead(p)} \cup Doc(p)
    BY CommitTables
  <1>2. /\ Dead(p) \subseteq LocksOf(p) /\ Dead(p) \subseteq Live /\ p.del \subseteq Dead(p)
        /\ \A r \in Doc(p) : /\ r.id = p.n /\ p.n /= 0
                             /\ r.cfg \in Dead(p) \/ (r.cfg = p.n /\ r.cfg \in New(p))
        /\ \A c \in New(p) : c = p.n /\ p.n /= 0 /\ p.n \notin Live
    BY CommitRows
  <1>3. LocksOf(q) \cap Dead(p) = {} /\ LocksOf(q) \subseteq Live
    BY <1>2 DEF Own, Apart
  <1>4. LocksOf(q) \subseteq Live'
    BY <1>1, <1>2, <1>3
  <1>5. SeenIsOff(q)'
    <2>1. q.seen \cap Live' \subseteq q.seen \cap Live
      BY <1>1, <1>2 DEF Apart
    <2> QED
      BY <2>1 DEF Own, SeenIsOff
  <1>6. Unused(q)'
    <2> SUFFICES ASSUME q.n /= 0 PROVE q.n \notin Live' \cup IDs(rules)' \cup q.seen
      BY DEF Unused
    <2>1. q.n /= p.n /\ q.n \notin Live /\ q.n \notin IDs(rules) /\ q.n \notin q.seen
      BY DEF Own, Unused, Apart
    <2>2. q.n \notin Live'
      BY <1>1, <1>2, <2>1
    <2>3. q.n \notin IDs(rules)'
      BY <1>1, <1>2, <2>1 DEF IDs
    <2> QED
      BY <2>1, <2>2, <2>3
  <1>7. ASSUME NEW cs, cs \subseteq LocksOf(q)
        PROVE  IDs(RulesOf(cs))' = IDs(RulesOf(cs))
    <2>1. \A r \in Doc(p) : r.cfg \notin cs
      BY <1>2, <1>3, <1>7
    <2>2. RulesOf(cs)' = RulesOf(cs)
      BY <1>1, <1>3, <1>7, <2>1 DEF RulesOf
    <2> QED
      BY <2>2 DEF IDs
  <1>8. GoneIsOwn(q)'
    <2>1. GoneIsOwn(q) /\ q.on \subseteq {q.cfg}
      BY DEF Own, Shape
    <2>2. q.op = "custom" /\ q.at = 6 /\ q.on /= {} => q.gone = IDs(RulesOf({q.cfg}))'
      <3> SUFFICES ASSUME q.op = "custom", q.at = 6, q.on /= {}
                   PROVE  q.gone = IDs(RulesOf({q.cfg}))'
        OBVIOUS
      <3>1. {q.cfg} \subseteq LocksOf(q)
        BY <2>1 DEF LocksOf
      <3> QED
        BY <1>7, <2>1, <3>1 DEF GoneIsOwn
    <2>3. q.op = "seed" /\ q.at = 3 => q.gone = IDs(RulesOf(q.del))'
      <3>1. q.del \subseteq LocksOf(q)
        BY DEF LocksOf
      <3> QED
        BY <1>7, <2>1, <3>1 DEF GoneIsOwn
    <2>4. q.gone \cap referenced' \subseteq q.nul
      BY <2>1 DEF GoneIsOwn, Writes
    <2> QED
      BY <2>2, <2>3, <2>4 DEF GoneIsOwn
  <1> QED
    BY <1>4, <1>5, <1>6, <1>8

\* A commit, and the end of the transaction.
LEMMA CommitKeeps ==
  ASSUME ReqInv, Tables, Serial, NEW h \in Requests, Commit(h)
  PROVE  ReqInv' /\ Tables' /\ Serial'
  <1>0. h \in InProgress /\ Step(h) = "commit" /\ UNCHANGED <<ops, overlapped>>
    BY DEF Commit, At
  <1>1. PICK p : p = req[h]
    OBVIOUS
  <1>2. /\ Own(p) /\ p \in Req /\ Shape(p)
        /\ \/ p.op \in {"promote", "byID"} /\ p.at = 4
           \/ p.op = "custom" /\ p.at = 6
           \/ p.op = "seed" /\ p.at = 3
    <2>1. Own(req[h]) /\ req[h] \in Req /\ Shape(req[h])
      BY <1>0, InProgressOwn
    <2> QED
      BY <1>0, <1>1, <2>1, StepTable
  <1>3. CASE p.op = "custom" /\ p.on = {}
    <2>1. Finish(h) /\ UNCHANGED <<configs, rules, referenced>>
      BY <1>1, <1>3 DEF Commit
    <2> QED
      BY <1>0, <2>1, FinishOnly
  <1>4. CASE ~(p.op = "custom" /\ p.on = {})
    <2> DEFINE c0 == [NewReq(p.op, 0, 0, TRUE) EXCEPT !.at = p.at]
    <2>1. /\ Writes(p) /\ Committing(p)
          /\ \/ p.op = "custom" /\ req' = [req EXCEPT ![h] = Onward(c0)]
             \/ p.op /= "custom" /\ req' = [req EXCEPT ![h] = Idle]
      <3>1. Committing(p)
        BY <1>2, <1>4 DEF Committing
      <3>2. /\ configs' = [c \in (Live \ p.del) \cup New(p) |->
                             c \in p.on \cup New(p) \/ (c \notin p.off /\ configs[c])]
            /\ rules' = {r \in rules : r.id \notin p.gone} \cup Doc(p)
            /\ referenced' = referenced \ p.nul
            /\ IF p.op = "custom" THEN Advance(h, c0) ELSE Finish(h)
        BY <1>1, <1>4, Zenon DEF Commit, New, Doc
      <3>3. p.op = "custom" => req' = [req EXCEPT ![h] = Onward(c0)]
        BY <3>2 DEF Advance, Onward
      <3>4. p.op /= "custom" => req' = [req EXCEPT ![h] = Idle]
        BY <3>2 DEF Finish
      <3> QED
        BY <3>1, <3>2, <3>3, <3>4, Zenon DEF Writes
    <2>2. PICK q : /\ req' = [req EXCEPT ![h] = q]
                   /\ \/ p.op = "custom" /\ q = Onward(c0)
                      \/ p.op /= "custom" /\ q = Idle
      BY <2>1
    <2>3. /\ q \in Req /\ q.n = 0 /\ q.seen = {} /\ q.busy = FALSE /\ q.todo = {}
          /\ q.on = {} /\ q.off = {} /\ q.del = {} /\ q.gone = {} /\ q.list = {}
          /\ \/ q.op = "idle" /\ q.at = 1
             \/ q.op = "custom" /\ q.at = 7
      <3>1. CASE p.op = "custom"
        <4>1. /\ c0 \in Req /\ c0.at = 6 /\ c0.op = "custom" /\ c0.n = 0 /\ c0.seen = {}
              /\ c0.todo = {} /\ c0.on = {} /\ c0.off = {} /\ c0.del = {} /\ c0.gone = {}
              /\ c0.list = {}
          <5>1. p.at = 6 /\ 0 \in Rows
            BY <1>2, <3>1 DEF Rows
          <5> DEFINE n0 == NewReq("custom", 0, 0, TRUE)
          <5>2. /\ n0 \in Req /\ n0.op = "custom" /\ n0.n = 0 /\ n0.seen = {}
                /\ n0.todo = {} /\ n0.on = {} /\ n0.off = {} /\ n0.del = {}
                /\ n0.gone = {} /\ n0.list = {}
            BY <5>1 DEF NewReq, Req, Ops
          <5>3. c0 = [n0 EXCEPT !.at = 6]
            BY <3>1, <5>1
          <5> HIDE DEF n0, c0
          <5> QED
            BY <5>2, <5>3 DEF Req
        <4> HIDE DEF c0
        <4>2. q = Onward(c0) /\ c0.at + 1 \in 1 .. 8 /\ c0.at + 1 = 7
          BY <2>2, <3>1, <4>1
        <4>3. /\ Onward(c0) \in Req /\ Onward(c0).at = c0.at + 1 /\ Onward(c0).busy = FALSE
              /\ Onward(c0).op = c0.op /\ Onward(c0).n = c0.n /\ Onward(c0).seen = c0.seen
              /\ Onward(c0).todo = c0.todo /\ Onward(c0).on = c0.on /\ Onward(c0).off = c0.off
              /\ Onward(c0).del = c0.del /\ Onward(c0).gone = c0.gone
              /\ Onward(c0).list = c0.list
          BY <4>1, <4>2, NextFields, ZenonT(60)
        <4> QED
          BY <4>1, <4>2, <4>3, Zenon
      <3>2. CASE p.op /= "custom"
        <4>1. q = Idle
          BY <2>2, <3>2
        <4>2. Idle \in Req
          BY IdleOwn DEF Own
        <4> QED
          BY <4>1, <4>2 DEF Idle, NewReq
      <3> QED
        BY <3>1, <3>2
    <2> HIDE DEF c0
    <2>4. Tables' /\ Live' = (Live \ p.del) \cup New(p)
      BY <1>0, <1>2, <2>1, CommitTables
    <2>5. /\ req'[h] = q /\ req' \in [Requests -> Req]
          /\ \A g \in Requests : g /= h => req'[g] = req[g]
      BY <2>2, <2>3 DEF ReqInv
    <2>6. Own(q)'
      <3>1. Shape(q) /\ LocksOf(q) = {}
        BY <2>3 DEF Shape, LocksOf
      <3>2. 0 <= ops'
        BY <2>4 DEF Tables
      <3>3. GoneIsOwn(q)' /\ SeenIsOff(q)' /\ Unused(q)'
        BY <2>3 DEF GoneIsOwn, SeenIsOff, Unused
      <3> QED
        BY <2>3, <3>1, <3>2, <3>3 DEF Own
    <2>7. ASSUME NEW g \in Requests, g /= h
          PROVE  Own(req[g])' /\ Apart(q, req[g]) /\ Apart(req[g], q)
      <3>1. PICK o : o = req[g]
        OBVIOUS
      <3>2. Own(o) /\ Apart(p, o) /\ Apart(o, p) /\ req'[g] = o
        BY <1>1, <2>5, <2>7, <3>1 DEF ReqInv
      <3>3. LocksOf(o) \subseteq Live' /\ SeenIsOff(o)' /\ Unused(o)' /\ GoneIsOwn(o)'
        BY <1>0, <1>2, <2>1, <3>2, CommitOther
      <3>4. Own(o)'
        BY <1>0, <3>2, <3>3 DEF Own
      <3>5. Apart(q, o) /\ Apart(o, q)
        BY <2>3 DEF Apart, LocksOf
      <3>6. Own(req[g])'
        BY <3>2, <3>4
      <3> QED
        BY <3>1, <3>5, <3>6
    <2>8. Own(req[h])'
      BY <2>5, <2>6
    <2>9. \A g \in Requests : Own(req[g])'
      BY <2>7, <2>8
    <2>10. \A f, g \in Requests : f /= g => Apart(req'[f], req'[g])
      BY <2>5, <2>7 DEF ReqInv
    <2>11. ReqInv'
      BY <2>5, <2>9, <2>10 DEF ReqInv, Apart, LocksOf
    <2>12. ASSUME ~overlapped PROVE OneSeed'
      <3>1. OneSeed
        BY <2>12 DEF Serial
      <3>2. q.op /= "seed"
        BY <2>3
      <3>3. \A f, g \in Requests : req'[f].op = "seed" /\ req'[g].op = "seed" => f = g
        BY <2>5, <3>1, <3>2 DEF OneSeed
      <3>4. CASE p.op = "seed"
        <4>1. Live = p.del
          <5>1. p.at = 3 /\ p.todo = {}
            BY <1>2, <3>4 DEF Shape, Req
          <5>2. req[h].op = "seed" /\ req[h].at >= 2
            BY <1>1, <3>4, <5>1
          <5>3. Live = p.todo \cup p.del
            BY <1>1, <3>1, <5>2 DEF OneSeed
          <5> QED
            BY <5>1, <5>3
        <4>2. Live' = {p.cfg}
          BY <2>4, <3>4, <4>1 DEF New
        <4>3. \A g \in Requests : req'[g].op /= "seed"
          BY <1>1, <2>5, <3>1, <3>2, <3>4 DEF OneSeed
        <4> QED
          BY <3>3, <4>2, <4>3 DEF OneSeed
      <3>5. CASE p.op /= "seed"
        <4>1. Live' = Live
          BY <1>2, <2>4, <3>5 DEF New, Shape
        <4>2. \A g \in Requests :
                req'[g].op = "seed" /\ (req'[g].busy \/ req'[g].at >= 2) =>
                  Live = req'[g].todo \cup req'[g].del
          BY <2>5, <3>1, <3>2 DEF OneSeed
        <4> QED
          BY <3>1, <3>3, <4>1, <4>2 DEF OneSeed
      <3> QED
        BY <3>4, <3>5
    <2> QED
      BY <1>0, <2>4, <2>11, <2>12 DEF Serial
  <1> QED
    BY <1>3, <1>4

-----------------------------------------------------------------------------
(***************************************************************************)
(* The invariant.                                                          *)
(***************************************************************************)

\* A database without configurations, or with a seeded one, and no request.
LEMMA InitConfig ==
  ASSUME Init
  PROVE  ConfigInv
  <1>1. /\ referenced = {} /\ fires = {} /\ req = [h \in Requests |-> Idle]
        /\ tick = {} /\ engine = loadRulesFromPG
        /\ ops = 0 /\ faults = 0 /\ overlapped = FALSE
    BY DEF Init
  <1>2. Tables /\ \A c, d \in Live : c = d
    <2>1. CASE configs = <<>> /\ rules = {}
      <3>1. Live = {}
        BY <2>1 DEF Live
      <3> QED
        BY <1>1, <2>1, <3>1 DEF Tables, IDs
    <2>2. CASE configs = [c \in {0} |-> TRUE] /\ rules = {[id |-> 0, cfg |-> 0, ok |-> TRUE]}
      <3>1. Live = {0} /\ \A c \in Live : configs[c] = TRUE
        BY <2>2 DEF Live
      <3>2. rules \subseteq Rule /\ IDs(rules) = {0}
        BY <2>2 DEF Rule, Rows, IDs
      <3>3. \A c \in Live : \E r \in rules : r.cfg = c
        BY <2>2, <3>1
      <3>4. \A r \in rules : r.cfg \in Live
        BY <2>2, <3>1
      <3>5. \A r, s \in rules : r = s
        BY <2>2
      <3>6. ops \in 0 .. MaxOps /\ Live \cup IDs(rules) \subseteq 0 .. ops
        BY <1>1, <3>1, <3>2
      <3> QED
        BY <1>1, <3>1, <3>2, <3>3, <3>4, <3>5, <3>6 DEF Tables
    <2> QED
      BY <2>1, <2>2 DEF Init
  <1>3. Own(Idle) /\ LocksOf(Idle) = {} /\ Idle.n = 0 /\ Idle.seen = {} /\ Idle.op = "idle"
    BY <1>2, IdleOwn
  <1>4. ReqInv
    BY <1>1, <1>3 DEF ReqInv, Own, Apart
  <1>5. Engine
    BY <1>1, <1>2, LoadCompiles DEF Engine
  <1>6. Serial
    BY <1>1, <1>2, <1>3 DEF Serial, OneSeed
  <1> QED
    BY <1>2, <1>4, <1>5, <1>6 DEF ConfigInv

\* The steps of the engine and of the fires: what they move compiles.
LEMMA EngineKeeps ==
  ASSUME ConfigInv, [Next]_vars
  PROVE  Engine'
  <1>1. ReqInv /\ Tables /\ Engine
    BY DEF ConfigInv
  <1>2. loadRulesFromPG \in SUBSET Rule /\ \A r \in loadRulesFromPG : r.ok
    BY <1>1, LoadCompiles
  <1>3. CASE UNCHANGED <<fires, engine, tick, faults>>
    BY <1>1, <1>3 DEF Engine
  <1>4. ASSUME NEW h \in Requests, ReqReplace(h) PROVE Engine'
    <2>1. engine' = req[h].list /\ UNCHANGED <<fires, tick, faults>>
      BY <1>4 DEF ReqReplace, Replace
    <2>2. req[h].list \subseteq Rule /\ \A r \in req[h].list : r.ok
      BY <1>1 DEF ReqInv, Own, Req
    <2> QED
      BY <1>1, <2>1, <2>2 DEF Engine
  <1>5. CASE TickLoad
    <2>1. tick' = {loadRulesFromPG} /\ UNCHANGED <<fires, engine, faults>>
      BY <1>5 DEF TickLoad
    <2>2. UNION tick' = loadRulesFromPG
      BY <2>1
    <2> QED
      BY <1>1, <1>2, <2>1, <2>2 DEF Engine
  <1>6. CASE TickReplace
    <2>1. /\ \E list \in tick : engine' = list
          /\ tick' = {} /\ UNCHANGED <<fires, faults>>
      BY <1>6 DEF TickReplace, Replace
    <2> QED
      BY <1>1, <2>1 DEF Engine
  <1>7. CASE TickFails
    BY <1>1, <1>7 DEF Engine, TickFails
  <1>8. CASE Restart
    BY <1>1, <1>2, <1>8 DEF Engine, Restart
  <1>9. CASE Match
    <2>1. PICK r \in engine : fires' = fires \cup {r.id}
      BY <1>9 DEF Match
    <2>2. r.id \in Rows
      BY <1>1 DEF Engine, Rule
    <2> QED
      BY <1>1, <1>9, <2>1, <2>2 DEF Engine, Match
  <1>10. ASSUME NEW id, InsertTrigger(id) PROVE Engine'
    BY <1>1, <1>10 DEF Engine, InsertTrigger
  <1>11. ASSUME NEW h \in Requests, Start(h) \/ Proceed(h) \/ Fail(h)
         PROVE  UNCHANGED <<fires, engine, tick, faults>> \/ ReqReplace(h)
    <2>1. CASE Start(h)
      BY <2>1 DEF Start, StartPromote, StartByID, StartCustom, StartSeed, StartReq
    <2>2. CASE Proceed(h)
      BY <2>2 DEF Proceed, Find, Snapshot, LockRow, Cascade, Nullify, Drop, Commit, ReqLoad
    <2>3. CASE Fail(h)
      BY <2>3 DEF Fail
    <2> QED
      BY <1>11, <2>1, <2>2, <2>3
  <1>12. CASE DemoReset
    BY <1>3, <1>12 DEF DemoReset
  <1>13. CASE UNCHANGED vars
    BY <1>3, <1>13 DEF vars
  <1> QED
    BY <1>3, <1>4, <1>5, <1>6, <1>7, <1>8, <1>9, <1>10, <1>11, <1>12, <1>13 DEF Next

\* A step that touches no table and no request.
LEMMA IdleKeeps ==
  ASSUME ReqInv, Tables, Serial,
         UNCHANGED <<configs, rules, referenced, req, ops, overlapped>>
  PROVE  ReqInv' /\ Tables' /\ Serial'
  <1>1. \A h \in Requests : Own(req[h])'
    BY DEF ReqInv, Own, GoneIsOwn, SeenIsOff, Unused, Live, RulesOf, IDs, Shape, LocksOf
  <1>2. ReqInv'
    BY <1>1 DEF ReqInv, Apart, LocksOf
  <1>3. Tables'
    BY DEF Tables, Live, IDs
  <1>4. Serial'
    BY DEF Serial, OneSeed, Live
  <1> QED
    BY <1>2, <1>3, <1>4

\* Every step preserves the invariant.
LEMMA NextConfig ==
  ASSUME ConfigInv, [Next]_vars
  PROVE  ConfigInv'
  <1>1. ReqInv /\ Tables /\ Engine /\ Serial
    BY DEF ConfigInv
  <1>2. Engine'
    BY EngineKeeps
  <1> SUFFICES ReqInv' /\ Tables' /\ Serial'
    BY <1>2 DEF ConfigInv
  <1>3. ASSUME NEW h \in Requests, Start(h) PROVE ReqInv' /\ Tables' /\ Serial'
    <2>1. CASE StartPromote(h)
      BY <1>1, <2>1, StartKeeps DEF StartPromote, Ops
    <2>2. CASE StartByID(h)
      <3>1. PICK c \in Live : StartReq(h, NewReq("byID", ops + 1, c, TRUE))
        BY <2>2 DEF StartByID
      <3> QED
        BY <1>1, <3>1, StartKeeps DEF Ops
    <2>3. CASE StartCustom(h)
      <3>1. PICK ok \in BOOLEAN : StartReq(h, NewReq("custom", ops + 1, 0, ok))
        BY <2>3 DEF StartCustom
      <3> QED
        BY <1>1, <3>1, StartKeeps DEF Ops
    <2>4. CASE StartSeed(h)
      BY <1>1, <2>4, StartKeeps DEF StartSeed, Ops
    <2> QED
      BY <1>3, <2>1, <2>2, <2>3, <2>4 DEF Start
  <1>4. ASSUME NEW h \in Requests, Proceed(h) PROVE ReqInv' /\ Tables' /\ Serial'
    <2>1. CASE ReqReplace(h)
      <3>1. Finish(h) /\ UNCHANGED <<configs, rules, referenced, ops, overlapped>>
        BY <2>1 DEF ReqReplace
      <3> QED
        BY <1>1, <3>1, FinishOnly
    <2> QED
      BY <1>1, <1>4, <2>1, FindKeeps, SnapshotKeeps, LockRowKeeps, CascadeKeeps, NullifyKeeps,
         DropKeeps, CommitKeeps, ReqLoadKeeps DEF Proceed
  <1>5. ASSUME NEW h \in Requests, Fail(h) PROVE ReqInv' /\ Tables' /\ Serial'
    <2>1. Finish(h) /\ UNCHANGED <<configs, rules, referenced, ops, overlapped>>
      BY <1>5 DEF Fail
    <2> QED
      BY <1>1, <2>1, FinishOnly
  <1>6. CASE UNCHANGED <<configs, rules, referenced, req, ops, overlapped>>
    BY <1>1, <1>6, IdleKeeps
  <1>7. CASE TickLoad \/ TickReplace \/ TickFails \/ Match \/ UNCHANGED vars
    BY <1>6, <1>7 DEF TickLoad, TickReplace, TickFails, Match, vars
  <1>8. CASE Restart
    BY <1>1, <1>8, RestartKeeps
  <1>9. ASSUME NEW id, InsertTrigger(id) PROVE ReqInv' /\ Tables' /\ Serial'
    BY <1>1, <1>9, InsertKeeps
  <1>10. CASE DemoReset
    BY <1>1, <1>10, ResetKeeps
  <1> QED
    BY <1>3, <1>4, <1>5, <1>7, <1>8, <1>9, <1>10 DEF Next

\* The invariant holds of every reachable state.
LEMMA AlwaysConfig == Spec => []ConfigInv
  BY InitConfig, NextConfig, PTL DEF Spec

-----------------------------------------------------------------------------
(***************************************************************************)
(* The theorems.                                                           *)
(***************************************************************************)

\* Types, row locks held by one transaction at a time, triggers that refer to
\* rules that have a row, and no rule in the engine that does not compile.
THEOREM TypeCorrect == Spec => []TypeOK
  <1>1. ASSUME ConfigInv PROVE TypeOK
    <2>1. ReqInv /\ Tables /\ Engine /\ Serial
      BY <1>1 DEF ConfigInv
    <2>2. /\ Live \subseteq Rows /\ \A c \in Live : configs[c] \in BOOLEAN
          /\ rules \subseteq Rule /\ referenced \subseteq IDs(rules) /\ ops \in 0 .. MaxOps
      BY <2>1 DEF Tables, Rows
    <2>3. \A h \in InProgress : /\ req[h].at \in DOMAIN Program(req[h].op)
                                /\ \A r \in req[h].list : r \in Rule /\ r.ok
      <3> SUFFICES ASSUME NEW h \in InProgress
                   PROVE  /\ req[h].at \in DOMAIN Program(req[h].op)
                          /\ \A r \in req[h].list : r \in Rule /\ r.ok
        OBVIOUS
      <3>1. Own(req[h]) /\ req[h] \in Req /\ Shape(req[h])
        BY <2>1, InProgressOwn
      <3> QED
        BY <3>1, AtInProgram DEF Own, Req
    <2>4. \A g, h \in Requests : g /= h => Locks(g) \cap Locks(h) = {}
      BY <2>1 DEF ReqInv, Apart, Locks, LocksOf
    <2>5. Cardinality(tick) <= 1
      <3>1. CASE tick = {}
        BY <3>1, FS_EmptySet
      <3>2. CASE \E list \in tick : tick = {list}
        <4>1. Cardinality(tick) = 1
          BY <3>2, FS_Singleton
        <4> QED
          BY <4>1
      <3> QED
        BY <2>1, <3>1, <3>2 DEF Engine
    <2> QED
      BY <2>1, <2>2, <2>3, <2>4, <2>5 DEF TypeOK, Engine, Serial
  <1> QED
    BY <1>1, AlwaysConfig, PTL

\* Whatever is interrupted or rolled back, every configuration owns the rules of
\* exactly one document, and no rule outlives its configuration.
THEOREM ConfigHasItsRulesHolds == Spec => []ConfigHasItsRules
  <1>1. ASSUME ConfigInv PROVE ConfigHasItsRules
    <2>1. Tables
      BY <1>1 DEF ConfigInv
    <2>2. ASSUME NEW c \in Live PROVE Cardinality(RulesOf({c})) = 1
      <3>1. PICK r \in rules : r.cfg = c
        BY <2>1 DEF Tables
      <3>2. RulesOf({c}) = {r}
        BY <2>1, <3>1 DEF Tables, RulesOf
      <3> QED
        BY <3>2, FS_Singleton
    <2>3. RulesOf(Live) = rules
      BY <2>1 DEF Tables, RulesOf
    <2> QED
      BY <2>2, <2>3 DEF ConfigHasItsRules
  <1> QED
    BY <1>1, AlwaysConfig, PTL

\* It takes two seeds at a time to get two active configurations.
THEOREM TwoActiveHolds == Spec => []TwoActiveOnlyAfterOverlap
  <1>1. ASSUME ConfigInv PROVE TwoActiveOnlyAfterOverlap
    <2> SUFFICES ASSUME ~overlapped PROVE ~(Cardinality(Active) > 1)
      BY <1>1 DEF TwoActiveOnlyAfterOverlap
    <2>1. \A c, d \in Active : c = d
      BY <1>1 DEF ConfigInv, Serial, OneSeed, Active
    <2>2. CASE Active = {}
      <3>1. Cardinality(Active) = 0
        BY <2>2, FS_EmptySet
      <3> QED
        BY <3>1
    <2>3. CASE Active /= {}
      <3>1. PICK c \in Active : TRUE
        BY <2>3
      <3>2. Active = {c}
        BY <2>1, <3>1
      <3>3. Cardinality(Active) = 1
        BY <3>2, FS_Singleton
      <3> QED
        BY <3>3
    <2> QED
      BY <2>2, <2>3
  <1> QED
    BY <1>1, AlwaysConfig, PTL

\* An activation that commits leaves active, of all the configurations there
\* were when it deactivated the others, at most its own.
THEOREM ActivationIsExclusiveHolds == Spec => ActivationIsExclusive
  <1> DEFINE Exclusive ==
        \A h \in Requests :
          /\ At(h, "commit") /\ Commit(h)
          /\ req[h].op \in {"promote", "byID"} \/ (req[h].op = "custom" /\ req[h].on /= {})
          => {c \in DOMAIN configs' : configs'[c]} \cap req[h].seen \subseteq {req[h].cfg}
  <1>1. ASSUME ConfigInv PROVE Exclusive
    <2> SUFFICES ASSUME NEW h \in Requests, At(h, "commit"), Commit(h),
                        \/ req[h].op \in {"promote", "byID"}
                        \/ req[h].op = "custom" /\ req[h].on /= {},
                        NEW c \in DOMAIN configs', configs'[c], c \in req[h].seen
                 PROVE  c = req[h].cfg
      OBVIOUS
    <2> DEFINE p == req[h]
    <2>1. h \in InProgress /\ Step(h) = "commit" /\ ReqInv
      BY <1>1 DEF At, ConfigInv
    <2>2. Own(p) /\ p \in Req /\ Shape(p) /\ p.op /= "seed"
      BY <2>1, InProgressOwn
    <2>3. \/ p.op \in {"promote", "byID"} /\ p.at = 4
          \/ p.op = "custom" /\ p.at = 6
      BY <2>1, <2>2, StepTable
    <2>4. p.todo = {} /\ p.del = {} /\ p.on \subseteq {p.cfg}
      <3>1. ~p.busy
        BY <2>2, <2>3 DEF Shape
      <3> QED
        BY <2>2, <3>1 DEF Shape
    <2>5. configs' = [d \in Live |-> d \in p.on \/ (d \notin p.off /\ configs[d])]
      <3>1. configs' = [d \in (Live \ p.del) \cup {} |->
                          d \in p.on \cup {} \/ (d \notin p.off /\ configs[d])]
        BY <2>2 DEF Commit
      <3> QED
        BY <2>4, <3>1
    <2>6. c \in Live /\ (c \in p.on \/ c \notin p.off)
      BY <2>5
    <2>7. c = p.cfg \/ c \in p.off
      BY <2>2, <2>4, <2>6 DEF Own, SeenIsOff
    <2> QED
      BY <2>4, <2>6, <2>7
  <1>2. ConfigInv => [Exclusive]_vars
    BY <1>1
  <1> HIDE DEF Exclusive
  <1>3. Spec => [][Exclusive]_vars
    BY <1>2, AlwaysConfig, PTL
  <1> QED
    BY <1>3 DEF ActivationIsExclusive, Exclusive
=============================================================================
