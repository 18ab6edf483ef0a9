------------------------ MODULE JobEngineGateProofs -------------------------
(***************************************************************************)
(* Theorems of JobEngine about fan-out gates: a gate counts its children,  *)
(* and takes the branch its policy says.                                   *)
(***************************************************************************)
EXTENDS JobEngineEffects

\* What the provers may take for a step that does not say otherwise.
USE SMTT(60), ZenonT(60)

(***************************************************************************)
(* Gates.  The counts of a gate row are those of the events its children   *)
(* have; a fan-out gives every gate at most the children it expects.       *)
(***************************************************************************)
\* A gate row counts the terminal events of the children a worker settled.
Counts(g) ==
    LET ok == Cardinality(With(Children(g), "succeeded"))
        bad == Cardinality(With(Children(g), "dead"))
        skip == Cardinality(With(Children(g), "skipped"))
    IN  /\ gates[g].succeeded = ok /\ gates[g].failed = bad
        /\ gates[g].completed = ok + bad + skip

\* An id no fan-out has taken yet has neither children nor a row of its own; one
\* that is taken has at most the children it expects, and its on_complete is
\* outside every gate.
Provisioned(g) ==
    /\ gates[g].expected = 0 =>
          gates[g] = NoGate /\ Children(g) = {} /\ FollowUps("gate", g) = {}
    /\ Cardinality(Children(g)) <= gates[g].expected
    /\ gates[g].on_complete.gate = 0

GInv == RInv /\ \A g \in GateId : Counts(g) /\ Provisioned(g)

\* A row that was absent stays so, or is one of the list that was inserted.
LEMMA Newborns ==
    ASSUME RInv', NEW T, NEW rows, Absent(T) = Absent(jobs), Fills(T, jobs', rows),
           NEW i \in JobId, jobs[i].state = "absent"
    PROVE  jobs'[i] = NoRow \/ \E k \in DOMAIN rows : jobs'[i] = rows[k]
<1>1. PICK ids \in Injection(Inserted(T, rows), Absent(T)) :
        /\ \A k \in Inserted(T, rows) : jobs'[ids[k]] = rows[k]
        /\ \A h \in Absent(T) : (\A k \in Inserted(T, rows) : ids[k] # h) => jobs'[h] = T[h]
  BY DEF Fills
<1>2. i \in Absent(T) /\ T[i].state = "absent"
  BY DEF Absent
<1>3. Inserted(T, rows) \subseteq DOMAIN rows
  BY DEF Inserted
<1>4. jobs'[i].state = "absent" => jobs'[i] = NoRow
  BY DEF RInv, BlankRows
<1> QED BY <1>1, <1>2, <1>3, <1>4

\* Rows outside a gate do not become its children.
LEMMA SameChildren ==
    ASSUME RInv, RInv', Effects, NEW T, NEW rows, Absent(T) = Absent(jobs), Fills(T, jobs', rows),
           NEW g \in GateId, \A k \in DOMAIN rows : rows[k].spec.gate # g
    PROVE  Children(g)' = Children(g)
<1>1. g # 0 /\ NoRow.spec.gate = 0
  BY EngineAssumption DEF NoRow, NewRow, NoSpec
<1>2. \A i \in JobId : jobs[i].state # "absent" => jobs'[i].spec = jobs[i].spec
  BY SettledStays
<1>3. \A i \in JobId : jobs[i].state = "absent" => jobs[i].spec.gate # g
  BY <1>1 DEF RInv, BlankRows
<1>4. \A i \in JobId : jobs[i].state = "absent" => jobs'[i].spec.gate # g
  BY <1>1, Newborns
<1> QED BY <1>2, <1>3, <1>4 DEF Children

\* Where no job succeeds or dies, no job gets an event a gate counts.
LEMMA SameEvents ==
    ASSUME RInv, Effects,
           \A i \in JobId : jobs'[i].state \in {"succeeded", "dead"} => jobs'[i].state = jobs[i].state,
           NEW e \in {"succeeded", "skipped", "dead"}, NEW i \in JobId
    PROVE  e \in ledger'[i] <=> e \in ledger[i]
<1>1. Effect(jobs[i], jobs'[i], ledger[i], ledger'[i])
  BY DEF Effects
<1>2. jobs[i].state = "running" => jobs'[i].state \notin {"succeeded", "dead"}
  OBVIOUS
<1> QED BY <1>1, <1>2 DEF Effect

\* A job has at most one terminal event.
LEMMA OneEvent ==
    ASSUME RInv, NEW i \in JobId, NEW a \in ledger[i], NEW b \in ledger[i]
    PROVE  a = b
<1> SUFFICES ASSUME a # b PROVE FALSE
  OBVIOUS
<1>1. Cardinality(ledger[i]) <= 1 /\ ledger[i] \subseteq TerminalEvent
  BY DEF RInv, IInv, TypeOK, LedgerAgrees
<1>2. IsFiniteSet(TerminalEvent)
  <2>1. \A e : IsFiniteSet({e})
    BY FS_Singleton
  <2>2. IsFiniteSet({"succeeded"} \cup {"skipped"})
    BY <2>1, FS_Union, ZenonT(60)
  <2>3. IsFiniteSet({"dead"} \cup {"cancelled"})
    BY <2>1, FS_Union, ZenonT(60)
  <2>4. IsFiniteSet(({"succeeded"} \cup {"skipped"}) \cup ({"dead"} \cup {"cancelled"}))
    BY <2>2, <2>3, FS_Union, ZenonT(60)
  <2>5. IsFiniteSet((({"succeeded"} \cup {"skipped"}) \cup ({"dead"} \cup {"cancelled"}))
                       \cup {"dependency_cancelled"})
    BY <2>1, <2>4, FS_Union, ZenonT(60)
  <2>6. TerminalEvent = (({"succeeded"} \cup {"skipped"}) \cup ({"dead"} \cup {"cancelled"}))
                           \cup {"dependency_cancelled"}
    BY DEF TerminalEvent
  <2> QED BY <2>5, <2>6
<1>3. IsFiniteSet(ledger[i])
  BY <1>1, <1>2, FS_Subset
<1>4. Cardinality({a, b}) = 2
  <2>1. IsFiniteSet({a}) /\ Cardinality({a}) = 1
    BY FS_Singleton
  <2>2. {a, b} = {a} \cup {b} /\ b \notin {a}
    OBVIOUS
  <2> QED BY <2>1, <2>2, FS_AddElement
<1>5. Cardinality({a, b}) <= Cardinality(ledger[i])
  BY <1>3, FS_Subset
<1>6. Cardinality(ledger[i]) \in Nat
  BY <1>3, FS_CardinalityType
<1> QED BY <1>1, <1>4, <1>5, <1>6

\* The cardinality of a disjoint union.
LEMMA DisjointUnion ==
    ASSUME NEW A, NEW B, IsFiniteSet(A), IsFiniteSet(B), A \cap B = {}
    PROVE  IsFiniteSet(A \cup B) /\ Cardinality(A \cup B) = Cardinality(A) + Cardinality(B)
<1>1. Cardinality({}) = 0
  BY FS_EmptySet
<1>2. /\ IsFiniteSet(A \cup B)
      /\ Cardinality(A \cup B) = Cardinality(A) + Cardinality(B) - Cardinality(A \cap B)
  BY FS_Union
<1>3. Cardinality(A) \in Nat /\ Cardinality(B) \in Nat
  BY FS_CardinalityType
<1>4. Cardinality(A \cap B) = 0
  BY <1>1, ZenonT(60)
<1> DEFINE c == Cardinality(A \cap B)
<1>5. Cardinality(A \cup B) = Cardinality(A) + Cardinality(B) - c /\ c = 0
  BY <1>2, <1>4
<1> HIDE DEF c
<1> QED BY <1>2, <1>3, <1>5

\* The sets a gate counts are finite, and its three counts concern different children.
LEMMA CountedSets ==
    ASSUME RInv, NEW g
    PROVE  LET ok == With(Children(g), "succeeded")
               bad == With(Children(g), "dead")
               skip == With(Children(g), "skipped")
           IN  /\ IsFiniteSet(Children(g)) /\ IsFiniteSet(ok) /\ IsFiniteSet(bad) /\ IsFiniteSet(skip)
               /\ Cardinality(ok) + Cardinality(bad) + Cardinality(skip) =
                     Cardinality({j \in Children(g) : jobs[j].state \in {"succeeded", "dead"}})
               /\ Cardinality({j \in Children(g) : jobs[j].state \in {"succeeded", "dead"}})
                     <= Cardinality(Children(g))
<1> DEFINE kids == Children(g)
           ok == With(kids, "succeeded")
           bad == With(kids, "dead")
           skip == With(kids, "skipped")
           done == {j \in kids : jobs[j].state \in {"succeeded", "dead"}}
<1>1. kids \subseteq JobId
  BY DEF Children
<1>2. IsFiniteSet(kids)
  BY <1>1, EngineAssumption, FS_Subset
<1> HIDE DEF kids
<1>3. IsFiniteSet(ok) /\ IsFiniteSet(bad) /\ IsFiniteSet(skip) /\ IsFiniteSet(done)
      /\ Cardinality(done) <= Cardinality(kids)
  BY <1>2, FS_Subset DEF With
<1>4. \A i \in JobId : \A a, b \in ledger[i] : a = b
  BY OneEvent
<1>5. ok \cap bad = {} /\ (ok \cup bad) \cap skip = {}
  BY <1>1, <1>4 DEF With, kids
<1>6. done = (ok \cup bad) \cup skip
  BY <1>1 DEF RInv, LedgerAgrees, With, kids
<1> HIDE DEF ok, bad, skip, done
<1>7. Cardinality(ok \cup bad) = Cardinality(ok) + Cardinality(bad) /\ IsFiniteSet(ok \cup bad)
  BY <1>3, <1>5, DisjointUnion
<1>8. Cardinality(done) = Cardinality(ok \cup bad) + Cardinality(skip)
  BY <1>3, <1>5, <1>6, <1>7, DisjointUnion
<1> QED BY <1>2, <1>3, <1>7, <1>8 DEF kids, ok, bad, skip, done

\* What bump_gate.sql does to the gate row of a child that settles with event ev.
Bumps(r, s, ev) ==
    /\ s.completed = r.completed + 1
    /\ s.succeeded = IF ev = "succeeded" THEN r.succeeded + 1 ELSE r.succeeded
    /\ s.failed = IF ev = "dead" THEN r.failed + 1 ELSE r.failed
    /\ s.expected = r.expected /\ s.policy = r.policy /\ s.quorum_n = r.quorum_n
    /\ s.on_complete = r.on_complete
    /\ s.fired <=> r.fired \/ is_satisfied(s) \/ s.completed >= s.expected

\* The columns of a bumped gate row, and when the bump resolves the gate.
LEMMA BumpColumns ==
    ASSUME NEW g \in Gate, NEW ok \in BOOLEAN, NEW bad \in BOOLEAN,
           NEW ev, ok <=> ev = "succeeded", bad <=> ev = "dead"
    PROVE  LET b == bump_gate(g, ok, bad)
           IN  /\ Bumps(g, b.row, ev)
               /\ b.resolved <=> ~g.fired /\ (is_satisfied(b.row) \/ b.row.completed >= b.row.expected)
<1> DEFINE c == g.completed + 1
           s == IF ok THEN g.succeeded + 1 ELSE g.succeeded
           f == IF bad THEN g.failed + 1 ELSE g.failed
           post == [g EXCEPT !.completed = c, !.succeeded = s, !.failed = f]
           res == ~g.fired /\ (is_satisfied(post) \/ post.completed >= post.expected)
           row == [post EXCEPT !.fired = @ \/ res]
<1>1. c \in Nat /\ s \in Nat /\ f \in Nat
  BY DEF Gate
<1>2. bump_gate(g, ok, bad) = [row |-> row, resolved |-> res]
  BY DEF bump_gate
<1>3. /\ s = IF ev = "succeeded" THEN g.succeeded + 1 ELSE g.succeeded
      /\ f = IF ev = "dead" THEN g.failed + 1 ELSE g.failed
  OBVIOUS
<1> HIDE DEF s, f
<1>4. /\ post \in Gate /\ post.completed = c /\ post.succeeded = s /\ post.failed = f
      /\ post.expected = g.expected /\ post.policy = g.policy /\ post.quorum_n = g.quorum_n
      /\ post.on_complete = g.on_complete /\ post.fired = g.fired
  BY <1>1, ZenonT(60) DEF Gate
<1> HIDE DEF post
<1>5. res \in BOOLEAN
  OBVIOUS
<1>6. res <=> ~g.fired /\ (is_satisfied(post) \/ post.completed >= post.expected)
  OBVIOUS
<1> HIDE DEF res
<1>7. /\ row.completed = post.completed /\ row.succeeded = post.succeeded /\ row.failed = post.failed
      /\ row.expected = post.expected /\ row.policy = post.policy /\ row.quorum_n = post.quorum_n
      /\ row.on_complete = post.on_complete
  BY <1>4 DEF Gate
<1>8. row.fired <=> post.fired \/ res
  BY <1>4, <1>5 DEF Gate
<1>9. is_satisfied(row) <=> is_satisfied(post)
  BY <1>7 DEF is_satisfied
<1>10. bump_gate(g, ok, bad).row = row /\ (bump_gate(g, ok, bad).resolved <=> res)
  BY <1>2, <1>5
<1> HIDE DEF row
<1>11. Bumps(g, row, ev)
  BY <1>3, <1>4, <1>6, <1>7, <1>8, <1>9 DEF Bumps, c
<1> QED BY <1>6, <1>7, <1>9, <1>10, <1>11

\* _settle_gate bumps the gate of the job and no other.
LEMMA SettledGateRow ==
    ASSUME IInv, NEW j \in JobId, NEW ok \in BOOLEAN, NEW bad \in BOOLEAN,
           NEW ev, ok <=> ev = "succeeded", bad <=> ev = "dead",
           gates' = SettledGates(jobs[j].spec, ok, bad)
    PROVE  /\ \A h \in GateId \ {jobs[j].spec.gate} : gates'[h] = gates[h]
           /\ jobs[j].spec.gate \in GateId =>
                 Bumps(gates[jobs[j].spec.gate], gates'[jobs[j].spec.gate], ev)
<1> DEFINE g == jobs[j].spec.gate
<1>1. gates \in [GateId -> Gate] /\ g \in GateId \cup {0} /\ 0 \notin GateId
  BY EngineAssumption DEF IInv, TypeOK, Row, Spec_t
<1>2. CASE g = 0
  <2>1. gates' = gates
    BY <1>2 DEF SettledGates
  <2> QED BY <1>1, <1>2, <2>1
<1>3. CASE g # 0
  <2> DEFINE row == bump_gate(gates[g], ok, bad).row
  <2>1. gates' = [gates EXCEPT ![g] = row]
    BY <1>3 DEF SettledGates
  <2>2. Bumps(gates[g], row, ev)
    BY <1>1, <1>3, BumpColumns, ZenonT(60)
  <2> HIDE DEF row
  <2> QED BY <1>1, <1>3, <2>1, <2>2
<1> QED BY <1>2, <1>3

\* A child that settles adds its event to the count of its gate, and nothing else
\* is counted or uncounted.
LEMMA GateSettles ==
    ASSUME GInv, RInv', NEW j \in JobId, jobs[j].state = "running",
           NEW ev \in {"succeeded", "skipped", "dead"},
           \A g \in GateId : Children(g)' = Children(g),
           \A g \in GateId \ {jobs[j].spec.gate} :
              gates'[g] = gates[g] /\ FollowUps("gate", g)' = FollowUps("gate", g),
           jobs[j].spec.gate \in GateId =>
              Bumps(gates[jobs[j].spec.gate], gates'[jobs[j].spec.gate], ev),
           \A i \in JobId : \A e \in {"succeeded", "skipped", "dead"} :
              e \in ledger'[i] <=> e \in ledger[i] \/ (i = j /\ e = ev)
    PROVE  GInv'
<1> SUFFICES ASSUME NEW g \in GateId PROVE Counts(g)' /\ Provisioned(g)'
  BY DEF GInv
<1>1. Counts(g) /\ Provisioned(g) /\ RInv
  BY DEF GInv
<1>2. Children(g)' = Children(g) /\ Children(g) \subseteq JobId
  BY DEF Children
<1>3. CASE g # jobs[j].spec.gate
  <2>1. j \notin Children(g)
    BY <1>3 DEF Children
  <2>2. \A e \in {"succeeded", "skipped", "dead"} : With(Children(g), e)' = With(Children(g), e)
    BY <1>2, <2>1 DEF With
  <2>3. gates'[g] = gates[g] /\ FollowUps("gate", g)' = FollowUps("gate", g)
    BY <1>3
  <2> QED BY <1>1, <1>2, <2>2, <2>3 DEF Counts, Provisioned
<1>4. CASE g = jobs[j].spec.gate
  <2> DEFINE W(e) == With(Children(g), e)
  <2>1. j \in Children(g)
    BY <1>4 DEF Children
  <2>2. ledger[j] \cap {"succeeded", "skipped", "dead"} = {}
    BY <1>1 DEF RInv, LedgerAgrees
  <2>3. /\ \A e \in {"succeeded", "skipped", "dead"} \ {ev} : W(e)' = W(e)
        /\ W(ev)' = W(ev) \cup {j} /\ j \notin W(ev)
    BY <1>2, <2>1, <2>2 DEF With
  <2>4. IsFiniteSet(W("succeeded")) /\ IsFiniteSet(W("skipped")) /\ IsFiniteSet(W("dead"))
    BY <1>1, CountedSets, ZenonT(60)
  <2>5. Cardinality(W(ev)') = Cardinality(W(ev)) + 1
    BY <2>3, <2>4, FS_AddElement, ZenonT(60)
  <2>6. /\ Cardinality(W("succeeded")) \in Nat /\ Cardinality(W("skipped")) \in Nat
        /\ Cardinality(W("dead")) \in Nat
    BY <2>4, FS_CardinalityType
  <2>7. Bumps(gates[g], gates'[g], ev)
    BY <1>4
  <2>8. /\ gates[g].succeeded = Cardinality(W("succeeded")) /\ gates[g].failed = Cardinality(W("dead"))
        /\ gates[g].completed = Cardinality(W("succeeded")) + Cardinality(W("dead")) + Cardinality(W("skipped"))
    BY <1>1 DEF Counts
  <2> HIDE DEF W
  <2>9. \A e \in {"succeeded", "skipped", "dead"} :
           Cardinality(W(e)') = IF e = ev THEN Cardinality(W(e)) + 1 ELSE Cardinality(W(e))
    BY <2>3, <2>5
  <2> DEFINE ok == Cardinality(W("succeeded"))
             bad == Cardinality(W("dead"))
             skip == Cardinality(W("skipped"))
             ok1 == Cardinality(W("succeeded")')
             bad1 == Cardinality(W("dead")')
             skip1 == Cardinality(W("skipped")')
  <2>10. gates'[g].succeeded = ok1 /\ gates'[g].failed = bad1 /\ gates'[g].completed = ok1 + bad1 + skip1
    <3>1. ok \in Nat /\ bad \in Nat /\ skip \in Nat
      BY <2>6
    <3>2. /\ ok1 = IF ev = "succeeded" THEN ok + 1 ELSE ok
          /\ bad1 = IF ev = "dead" THEN bad + 1 ELSE bad
          /\ skip1 = IF ev = "skipped" THEN skip + 1 ELSE skip
      BY <2>9
    <3>3. gates[g].succeeded = ok /\ gates[g].failed = bad /\ gates[g].completed = ok + bad + skip
      BY <2>8
    <3> HIDE DEF ok, bad, skip, ok1, bad1, skip1
    <3>4. /\ gates'[g].completed = ok + bad + skip + 1
          /\ gates'[g].succeeded = IF ev = "succeeded" THEN ok + 1 ELSE ok
          /\ gates'[g].failed = IF ev = "dead" THEN bad + 1 ELSE bad
      BY <2>7, <3>3, ZenonT(60) DEF Bumps
    <3>5. CASE ev = "succeeded"
      BY <3>1, <3>2, <3>4, <3>5
    <3>6. CASE ev = "dead"
      BY <3>1, <3>2, <3>4, <3>6
    <3>7. CASE ev = "skipped"
      BY <3>1, <3>2, <3>4, <3>7
    <3> QED BY <3>5, <3>6, <3>7
  <2>11. Counts(g)'
    BY <2>10 DEF Counts, W
  <2>12. gates[g].expected # 0
    BY <1>1, <2>1 DEF Provisioned
  <2> QED BY <1>1, <1>2, <2>7, <2>11, <2>12, ZenonT(60) DEF Provisioned, Bumps
<1> QED BY <1>3, <1>4

\* The list _settle_gate inserts, told from the gate row before and after the
\* bump: the transaction that makes the gate fire inserts on_complete if the
\* policy is satisfied, and otherwise its hook, if it has one.
GateBorn(g) ==
    LET next == gates'[g].on_complete
        from == [kind |-> "gate", of |-> g]
    IN  IF gates[g].fired \/ ~gates'[g].fired THEN <<>>
        ELSE IF is_satisfied(gates'[g]) THEN <<NewRow("queued", next, from)>>
        ELSE IF next.hook = <<>> THEN <<>>
        ELSE <<NewRow("queued", HookSpec(next), from)>>

\* The list a settling job inserts: its own follow-up p, outside every gate, if
\* it has one, and what its gate inserts.
SettleList(j, list, own, gate, p) ==
    /\ own \in {<<>>, <<p>>} /\ p.spec.gate = 0 /\ p.origin.kind # "gate"
    /\ p.spec \in {advance(jobs[j].spec), HookSpec(jobs[j].spec)}
    /\ gate = IF jobs[j].spec.gate = 0 THEN <<>> ELSE GateBorn(jobs[j].spec.gate)
    /\ list \in {own \o gate, gate \o own}

\* The transaction that settles the running job j with event ev, seen from the
\* gates: one event, one bump, and a list of at most two rows, one of them the
\* gate's.
GateSettled(j, ev) ==
    LET g == jobs[j].spec.gate
    IN  /\ jobs[j].state = "running" /\ Effects
        /\ \A i \in JobId : \A e \in {"succeeded", "skipped", "dead"} :
              e \in ledger'[i] <=> e \in ledger[i] \/ (i = j /\ e = ev)
        /\ \A h \in GateId \ {g} : gates'[h] = gates[h]
        /\ g \in GateId => Bumps(gates[g], gates'[g], ev)
        /\ \E T, list, own, gate, p :
              /\ Absent(T) = Absent(jobs) /\ Fills(T, jobs', list)
              /\ SettleList(j, list, own, gate, p)

\* The gate's part of a settling transaction.
LEMMA SettledGateRows ==
    ASSUME IInv, NEW j \in JobId, NEW ok \in BOOLEAN, NEW bad \in BOOLEAN,
           NEW ev, ok <=> ev = "succeeded", bad <=> ev = "dead",
           gates' = SettledGates(jobs[j].spec, ok, bad)
    PROVE  GateRows(jobs[j].spec, ok, bad) =
              IF jobs[j].spec.gate = 0 THEN <<>> ELSE GateBorn(jobs[j].spec.gate)
<1> DEFINE g == jobs[j].spec.gate
           b == bump_gate(gates[g], ok, bad)
<1>1. gates \in [GateId -> Gate] /\ g \in GateId \cup {0} /\ 0 \notin GateId
  BY EngineAssumption DEF IInv, TypeOK, Row, Spec_t
<1>2. CASE g = 0
  BY <1>2 DEF GateRows
<1>3. CASE g # 0
  <2>1. gates' = [gates EXCEPT ![g] = b.row]
    BY <1>3 DEF SettledGates
  <2>2. /\ Bumps(gates[g], b.row, ev)
        /\ b.resolved <=> ~gates[g].fired /\ (is_satisfied(b.row) \/ b.row.completed >= b.row.expected)
    BY <1>1, <1>3, BumpColumns, ZenonT(60)
  <2> DEFINE next == b.row.on_complete
             from == [kind |-> "gate", of |-> g]
  <2>3. GateRows(jobs[j].spec, ok, bad) =
           IF ~b.resolved THEN <<>>
           ELSE IF is_satisfied(b.row) THEN <<NewRow("queued", next, from)>>
           ELSE IF next.hook = <<>> THEN <<>>
           ELSE <<NewRow("queued", HookSpec(next), from)>>
    BY <1>3 DEF GateRows
  <2> HIDE DEF b
  <2>4. gates'[g] = b.row
    BY <1>1, <1>3, <2>1
  <2>5. b.resolved <=> ~(gates[g].fired \/ ~gates'[g].fired)
    BY <2>2, <2>4 DEF Bumps
  <2>6. CASE b.resolved
    BY <1>3, <2>3, <2>4, <2>5, <2>6 DEF GateBorn
  <2>7. CASE ~b.resolved
    BY <1>3, <2>3, <2>5, <2>7 DEF GateBorn
  <2> QED BY <2>6, <2>7
<1> QED BY <1>2, <1>3

\* A complete settles the job with "succeeded", or with "skipped".
LEMMA CompleteSettles ==
    ASSUME RInv, NEW j \in JobId, NEW t \in Nat, NEW skipped \in BOOLEAN,
           NEW drop \in BOOLEAN, Complete(j, t, skipped, drop)
    PROVE  \E ev \in {"succeeded", "skipped", "dead"} : GateSettled(j, ev)
<1> DEFINE ev == IF skipped THEN "skipped" ELSE "succeeded"
           T == archive(jobs, j, "succeeded")
           list == CompleteList(j, skipped, drop)
           p == NewRow("queued", advance(jobs[j].spec), [kind |-> "chain", of |-> j])
           own == IF HasNext(jobs[j].spec) /\ ~drop THEN <<p>> ELSE <<>>
           ok == ~skipped
           gate == GateRows(jobs[j].spec, ok, FALSE)
           g == jobs[j].spec.gate
<1>1. /\ Effects /\ jobs[j].state = "running"
      /\ Absent(T) = Absent(jobs) /\ Fills(T, jobs', list)
      /\ ledger' = record_events({j}, ev, {})
  BY CompleteEffects, ZenonT(60) DEF RInv, CompleteList
<1>2. IInv /\ jobs[j] \in Row
  BY DEF RInv, IInv, TypeOK
<1>3. own \in {<<>>, <<p>>} /\ p.spec.gate = 0 /\ p.origin.kind # "gate"
      /\ p.spec \in {advance(jobs[j].spec), HookSpec(jobs[j].spec)}
  <2>1. p.spec.gate = 0 /\ p.origin = [kind |-> "chain", of |-> j]
    BY <1>2, OwnRowColumns, ZenonT(60)
  <2>2. [kind |-> "chain", of |-> j].kind = "chain"
    OBVIOUS
  <2>3. p.spec = advance(jobs[j].spec)
    BY DEF NewRow
  <2> HIDE DEF p
  <2> QED BY <2>1, <2>2, <2>3
<1>4. list = own \o gate
  BY DEF CompleteList, ChainRows
<1>5. gates' = SettledGates(jobs[j].spec, ok, FALSE)
  BY DEF Complete
<1>6. ok \in BOOLEAN /\ (ok <=> ev = "succeeded") /\ (FALSE <=> ev = "dead")
  OBVIOUS
<1>7. \A i \in JobId : \A e \in {"succeeded", "skipped", "dead"} :
         e \in ledger'[i] <=> e \in ledger[i] \/ (i = j /\ e = ev)
  BY <1>1 DEF record_events
<1>8. ev \in {"succeeded", "skipped", "dead"}
  OBVIOUS
<1> HIDE DEF ev, T, list, p, own, ok
<1>9. /\ \A h \in GateId \ {g} : gates'[h] = gates[h]
      /\ g \in GateId => Bumps(gates[g], gates'[g], ev)
  BY <1>2, <1>5, <1>6, SettledGateRow, ZenonT(60)
<1>10. gate = IF g = 0 THEN <<>> ELSE GateBorn(g)
  BY <1>2, <1>5, <1>6, SettledGateRows, ZenonT(60)
<1> HIDE DEF gate
<1>11. list \in {own \o gate, gate \o own}
  BY <1>4
<1>12. SettleList(j, list, own, gate, p)
  BY <1>3, <1>10, <1>11, ZenonT(60) DEF SettleList
<1>13. GateSettled(j, ev)
  BY <1>1, <1>7, <1>9, <1>12, ZenonT(60) DEF GateSettled
<1> QED BY <1>8, <1>13

\* A death settles the job with "dead".
LEMMA DieSettles ==
    ASSUME RInv, NEW j \in JobId, jobs[j].state = "running", Die(j)
    PROVE  GateSettled(j, "dead")
<1> DEFINE T == archive(jobs, j, "dead")
           list == DieList(j)
           p == NewRow("queued", HookSpec(jobs[j].spec), [kind |-> "hook", of |-> j])
           own == IF jobs[j].spec.hook # <<>> THEN <<p>> ELSE <<>>
           gate == GateRows(jobs[j].spec, FALSE, TRUE)
           g == jobs[j].spec.gate
<1>1. PICK C \in SUBSET JobId :
      /\ Effects
      /\ Absent(T) = Absent(jobs) /\ Fills(T, jobs', list)
      /\ ledger' = record_events({j}, "dead", C)
  BY DieEffects, ZenonT(60) DEF RInv, DieList
<1>2. IInv /\ jobs[j] \in Row
  BY DEF RInv, IInv, TypeOK
<1>3. own \in {<<>>, <<p>>} /\ p.spec.gate = 0 /\ p.origin.kind # "gate"
      /\ p.spec \in {advance(jobs[j].spec), HookSpec(jobs[j].spec)}
  <2>1. p.spec.gate = 0 /\ p.origin = [kind |-> "hook", of |-> j]
    BY <1>2, OwnRowColumns, ZenonT(60)
  <2>2. [kind |-> "hook", of |-> j].kind = "hook"
    OBVIOUS
  <2>3. p.spec = HookSpec(jobs[j].spec)
    BY DEF NewRow
  <2> HIDE DEF p
  <2> QED BY <2>1, <2>2, <2>3
<1>4. list = gate \o own
  BY ZenonT(60) DEF DieList, HookRows
<1>5. gates' = SettledGates(jobs[j].spec, FALSE, TRUE)
  BY DEF Die
<1>6. (FALSE <=> "dead" = "succeeded") /\ (TRUE <=> "dead" = "dead")
  OBVIOUS
<1>7. \A i \in JobId : \A e \in {"succeeded", "skipped", "dead"} :
         e \in ledger'[i] <=> e \in ledger[i] \/ (i = j /\ e = "dead")
  BY <1>1 DEF record_events
<1> HIDE DEF T, list, p, own
<1>8. /\ \A h \in GateId \ {g} : gates'[h] = gates[h]
      /\ g \in GateId => Bumps(gates[g], gates'[g], "dead")
  BY <1>2, <1>5, <1>6, SettledGateRow, ZenonT(60)
<1>9. gate = IF g = 0 THEN <<>> ELSE GateBorn(g)
  BY <1>2, <1>5, <1>6, SettledGateRows, ZenonT(60)
<1> HIDE DEF gate
<1>10. list \in {own \o gate, gate \o own}
  BY <1>4
<1>11. SettleList(j, list, own, gate, p)
  BY <1>3, <1>9, <1>10, ZenonT(60) DEF SettleList
<1> QED BY <1>1, <1>7, <1>8, <1>11 DEF GateSettled

\* A row of the list of a settling job follows up on it or on its gate, and is
\* outside every gate.
LEMMA SettledLists ==
    ASSUME GInv, NEW j \in JobId, NEW own, NEW gate, NEW list, NEW p,
           \A g \in GateId : gates'[g].on_complete = gates[g].on_complete,
           SettleList(j, list, own, gate, p)
    PROVE  /\ GateList(gate, [kind |-> "gate", of |-> jobs[j].spec.gate])
           /\ \A k \in DOMAIN list :
                 /\ list[k].spec.gate = 0
                 /\ list[k] = p \/ list[k].origin = [kind |-> "gate", of |-> jobs[j].spec.gate]
<1> DEFINE g == jobs[j].spec.gate
           from == [kind |-> "gate", of |-> g]
<1>0. /\ own \in {<<>>, <<p>>} /\ p.spec.gate = 0
      /\ gate = IF g = 0 THEN <<>> ELSE GateBorn(g)
      /\ list \in {own \o gate, gate \o own}
  BY ZenonT(60) DEF SettleList
<1>1. g \in GateId \cup {0} /\ (g \in GateId => gates[g] \in Gate)
  BY DEF GInv, RInv, IInv, TypeOK, Row, Spec_t
<1>2. \A s : NewRow("queued", s, from).origin = from /\ NewRow("queued", s, from).spec = s
  BY DEF NewRow
<1>3. gate = <<>> \/ \E r : gate = <<r>> /\ r.origin = from /\ r.spec.gate = 0
  <2>1. CASE g = 0
    BY <1>0, <2>1
  <2>2. CASE g \in GateId
    <3> DEFINE next == gates'[g].on_complete
    <3>1. next = gates[g].on_complete
      BY <2>2
    <3>2. next.gate = 0
      BY <2>2, <3>1 DEF GInv, Provisioned
    <3>3. HookSpec(next).gate = 0
      BY DEF HookSpec, NoSpec
    <3>4. gate = <<>> \/ gate = <<NewRow("queued", next, from)>> \/ gate = <<NewRow("queued", HookSpec(next), from)>>
      BY <1>0, <2>2, EngineAssumption, ZenonT(60) DEF GateBorn
    <3> HIDE DEF next, from
    <3> QED BY <1>2, <3>2, <3>3, <3>4
  <2> QED BY <1>1, <2>1, <2>2
<1> HIDE DEF from
<1>4. PICK r : gate = <<>> \/ (gate = <<r>> /\ r.origin = from /\ r.spec.gate = 0)
  BY <1>3, ZenonT(60)
<1>5. \A k \in DOMAIN list : list[k] = p \/ (list[k] = r /\ r.origin = from /\ r.spec.gate = 0)
  <2>1. CASE gate = <<>>
    <3>1. list \in {<<>>, <<p>>}
      BY <1>0, <2>1, ShortLists, ZenonT(60)
    <3> QED BY <3>1
  <2>2. CASE gate = <<r>> /\ r.origin = from /\ r.spec.gate = 0
    <3>1. list \in {<<r>>, <<p, r>>, <<r, p>>}
      BY <1>0, <2>2, ShortLists, ZenonT(60)
    <3> QED BY <2>2, <3>1
  <2> QED BY <1>4, <2>1, <2>2
<1>6. GateList(gate, from)
  BY <1>3 DEF GateList
<1> QED BY <1>0, <1>5, <1>6, ZenonT(60) DEF from

\* A settling job leaves no row at a gate that is not its own.
LEMMA OtherGates ==
    ASSUME GInv, RInv', NEW j \in JobId, NEW ev, GateSettled(j, ev),
           NEW h \in GateId \ {jobs[j].spec.gate}
    PROVE  FollowUps("gate", h)' = FollowUps("gate", h)
<1> DEFINE g == jobs[j].spec.gate
           o == [kind |-> "gate", of |-> h]
           from == [kind |-> "gate", of |-> g]
<1>1. PICK T, list, own, gate, p :
              /\ Absent(T) = Absent(jobs) /\ Fills(T, jobs', list)
              /\ SettleList(j, list, own, gate, p)
  BY DEF GateSettled
<1>2. SettleList(j, list, own, gate, p) /\ RInv /\ Effects
  BY <1>1 DEF GInv, GateSettled
<1>3. \A k \in GateId : gates'[k].on_complete = gates[k].on_complete
  BY ZenonT(60) DEF GateSettled, Bumps
<1>4. \A k \in DOMAIN list : list[k] = p \/ list[k].origin = from
  BY <1>2, <1>3, SettledLists
<1>5. o.kind = "gate" /\ o # from
  <2>1. o.of = h /\ from.of = g /\ o.kind = "gate"
    OBVIOUS
  <2> QED BY <2>1
<1>6. NoFollower(list, "gate", h)
  <2>1. \A k \in DOMAIN list : list[k].origin # o
    <3> HIDE DEF o, from
    <3> QED BY <1>2, <1>4, <1>5, ZenonT(60) DEF SettleList
  <2> QED BY <2>1 DEF NoFollower
<1> QED BY <1>1, <1>2, <1>6, NoneBorn

\* A settling job keeps the counts of the gates.
LEMMA SettledGInv ==
    ASSUME GInv, RInv', NEW j \in JobId, NEW ev \in {"succeeded", "skipped", "dead"}, GateSettled(j, ev)
    PROVE  GInv'
<1> DEFINE g == jobs[j].spec.gate
<1>1. PICK T, list, own, gate, p :
              /\ Absent(T) = Absent(jobs) /\ Fills(T, jobs', list)
              /\ SettleList(j, list, own, gate, p)
  BY DEF GateSettled
<1>2. /\ jobs[j].state = "running" /\ Effects
      /\ \A i \in JobId : \A e \in {"succeeded", "skipped", "dead"} :
            e \in ledger'[i] <=> e \in ledger[i] \/ (i = j /\ e = ev)
      /\ \A h \in GateId \ {g} : gates'[h] = gates[h]
      /\ g \in GateId => Bumps(gates[g], gates'[g], ev)
  BY DEF GateSettled
<1>3. \A k \in DOMAIN list : /\ list[k].spec.gate = 0
                             /\ list[k] = p \/ list[k].origin = [kind |-> "gate", of |-> g]
  <2>1. SettleList(j, list, own, gate, p)
    BY <1>1
  <2>2. \A h \in GateId : gates'[h].on_complete = gates[h].on_complete
    BY <1>2, ZenonT(60) DEF Bumps
  <2> QED BY <2>1, <2>2, SettledLists
<1>4. RInv /\ 0 \notin GateId
  BY EngineAssumption DEF GInv
<1>5. \A h \in GateId : Children(h)' = Children(h)
  <2> SUFFICES ASSUME NEW h \in GateId PROVE Children(h)' = Children(h)
    OBVIOUS
  <2>1. \A k \in DOMAIN list : list[k].spec.gate # h
    BY <1>3, <1>4
  <2> QED BY <1>1, <1>2, <1>4, <2>1, SameChildren
<1>6. \A h \in GateId \ {g} : FollowUps("gate", h)' = FollowUps("gate", h)
  BY OtherGates
<1> HIDE DEF g
<1>7. /\ \A h \in GateId \ {g} : gates'[h] = gates[h] /\ FollowUps("gate", h)' = FollowUps("gate", h)
  BY <1>2, <1>6
<1> QED BY <1>2, <1>5, <1>7, GateSettles DEF g

\* A step that keeps a gate, its children, their events and its follow-ups keeps
\* its counts.
LEMMA SameGate ==
    ASSUME NEW g \in GateId, Counts(g), Provisioned(g), gates'[g] = gates[g],
           Children(g)' = Children(g), FollowUps("gate", g)' = FollowUps("gate", g),
           \A i \in JobId : \A e \in {"succeeded", "skipped", "dead"} : e \in ledger'[i] <=> e \in ledger[i]
    PROVE  Counts(g)' /\ Provisioned(g)'
<1>1. \A e \in {"succeeded", "skipped", "dead"} : With(Children(g), e)' = With(Children(g), e)
  BY DEF With, Children
<1> QED BY <1>1 DEF Counts, Provisioned

\* A calm step touches no gate and settles no child.
LEMMA CalmGInv ==
    ASSUME GInv, RInv', Effects, Calm
    PROVE  GInv'
<1>1. RInv /\ gates' = gates
  BY DEF GInv, Calm
<1>2. \A i \in JobId : jobs'[i].spec = jobs[i].spec /\ jobs'[i].origin = jobs[i].origin
  BY <1>1, SettledStays DEF Calm
<1>3. \A i \in JobId : \A e \in {"succeeded", "skipped", "dead"} : e \in ledger'[i] <=> e \in ledger[i]
  BY <1>1, SameEvents DEF Calm
<1>4. \A g \in GateId : Children(g)' = Children(g) /\ FollowUps("gate", g)' = FollowUps("gate", g)
  BY <1>2 DEF Children, FollowUps
<1> QED BY <1>1, <1>3, <1>4, SameGate DEF GInv

\* A fan-out takes a free gate id, and each child it inserts is one of the list.
LEMMA FanOutGInv ==
    ASSUME GInv, RInv', Effects, NEW rows, Inserts(rows), FansOut(rows)
    PROVE  GInv'
<1>1. PICK g \in GateId, gs \in GateSpecs :
        /\ gates[g].expected = 0
        /\ gates' = [gates EXCEPT ![g] =
                        [NoGate EXCEPT !.policy = gs.policy, !.quorum_n = gs.quorum_n,
                                       !.expected = Len(gs.children),
                                       !.on_complete = gs.on_complete]]
        /\ DOMAIN rows = 1..Len(gs.children)
        /\ \A k \in DOMAIN rows : rows[k].spec = [gs.children[k] EXCEPT !.gate = g]
  BY ZenonT(60) DEF FansOut
<1>2. /\ RInv /\ gates \in [GateId -> Gate] /\ g # 0
      /\ Fills(jobs, jobs', rows) /\ ledger' = ledger
      /\ \A k \in DOMAIN rows : rows[k].origin.kind \in {"client", "replay"}
  BY EngineAssumption DEF GInv, RInv, IInv, TypeOK, Inserts
<1>3. /\ gs.children \in Seq(Spec_t) /\ Len(gs.children) \in Nat \ {0}
      /\ DOMAIN gs.children = 1..Len(gs.children)
      /\ gs.on_complete.gate = 0
  <2>1. gs \in GateSpec_t /\ gs.on_complete.gate = 0
    BY EngineAssumption
  <2>2. gs.children \in Seq(Spec_t) /\ gs.children # <<>>
    BY <2>1 DEF GateSpec_t
  <2> QED BY <2>1, <2>2
<1>4. \A k \in DOMAIN rows : rows[k].spec.gate = g
  <2>1. \A s \in Spec_t : [s EXCEPT !.gate = g].gate = g
    BY DEF Spec_t
  <2>2. \A k \in DOMAIN rows : gs.children[k] \in Spec_t
    BY <1>1, <1>3
  <2> QED BY <1>1, <2>1, <2>2, ZenonT(60)
<1>5. \A h \in GateId : FollowUps("gate", h)' = FollowUps("gate", h)
  <2> SUFFICES ASSUME NEW h \in GateId PROVE FollowUps("gate", h)' = FollowUps("gate", h)
    OBVIOUS
  <2>1. [kind |-> "gate", of |-> h].kind = "gate"
    OBVIOUS
  <2>2. NoFollower(rows, "gate", h)
    BY <1>2, <2>1 DEF NoFollower
  <2> QED BY <1>2, <2>2, NoneBorn
<1>6. ASSUME NEW h \in GateId \ {g}
      PROVE  Counts(h)' /\ Provisioned(h)'
  <2>1. Children(h)' = Children(h)
    BY <1>2, <1>4, SameChildren
  <2>2. gates'[h] = gates[h] /\ Counts(h) /\ Provisioned(h)
    BY <1>1, <1>2 DEF GInv
  <2> QED BY <1>2, <1>5, <2>1, <2>2, SameGate
<1>7. /\ gates'[g].expected = Len(gs.children) /\ gates'[g].on_complete = gs.on_complete
      /\ gates'[g].completed = 0 /\ gates'[g].succeeded = 0 /\ gates'[g].failed = 0
  <2> DEFINE n == Len(gs.children)
             row == [NoGate EXCEPT !.policy = gs.policy, !.quorum_n = gs.quorum_n,
                                   !.expected = n, !.on_complete = gs.on_complete]
  <2>1. gates'[g] = row
    BY <1>1, <1>2
  <2> HIDE DEF n
  <2>2. /\ row.expected = n /\ row.on_complete = gs.on_complete
        /\ row.completed = 0 /\ row.succeeded = 0 /\ row.failed = 0
    BY DEF NoGate
  <2> HIDE DEF row
  <2> QED BY <2>1, <2>2 DEF n
<1>8. Children(g) = {}
  BY <1>1 DEF GInv, Provisioned
<1>9. \A i \in Children(g)' : jobs[i].state = "absent"
  <2>1. \A i \in JobId : jobs[i].state # "absent" => jobs'[i].spec = jobs[i].spec
    BY <1>2, SettledStays
  <2> QED BY <1>8, <2>1 DEF Children
<1>10. IsFiniteSet(Children(g)') /\ Cardinality(Children(g)') <= Len(gs.children)
  <2> DEFINE K == Inserted(jobs, rows)
  <2>1. PICK ids \in Injection(K, Absent(jobs)) :
        /\ \A k \in K : jobs'[ids[k]] = rows[k]
        /\ \A i \in Absent(jobs) : (\A k \in K : ids[k] # i) => jobs'[i] = jobs[i]
    BY <1>2 DEF Fills
  <2>2. K \subseteq 1..Len(gs.children) /\ K \subseteq DOMAIN rows
    BY <1>1 DEF Inserted
  <2> HIDE DEF K
  <2>3. ids \in [K -> JobId]
    BY DEF Injection, IsInjective, Absent
  <2>4. \A k \in K : ids[k] \in Children(g)'
    BY <1>4, <2>1, <2>2, <2>3 DEF Children
  <2>5. \A i \in Children(g)' : \E k \in K : ids[k] = i
    <3> SUFFICES ASSUME NEW i \in Children(g)', \A k \in K : ids[k] # i PROVE FALSE
      OBVIOUS
    <3>1. i \in JobId /\ i \in Absent(jobs) /\ jobs'[i].spec.gate = g
      BY <1>9 DEF Children, Absent
    <3>2. jobs'[i] = jobs[i]
      BY <2>1, <3>1
    <3> QED BY <1>8, <3>1, <3>2 DEF Children
  <2>6. ids \in Surjection(K, Children(g)')
    BY <2>3, <2>4, <2>5 DEF Surjection
  <2>7. /\ IsFiniteSet(1..Len(gs.children)) /\ Cardinality(1..Len(gs.children)) = Len(gs.children)
    BY <1>3, FS_Interval
  <2>8. IsFiniteSet(K) /\ Cardinality(K) <= Len(gs.children)
    BY <2>2, <2>7, FS_Subset
  <2>9. IsFiniteSet(Children(g)') /\ Cardinality(Children(g)') <= Cardinality(K)
    BY <2>6, <2>8, FS_Surjection
  <2>10. Cardinality(Children(g)') \in Nat /\ Cardinality(K) \in Nat
    BY <2>8, <2>9, FS_CardinalityType
  <2> QED BY <1>3, <2>8, <2>9, <2>10
<1>11. \A e \in {"succeeded", "skipped", "dead"} : With(Children(g), e)' = {}
  <2>1. \A i \in JobId : jobs[i].state = "absent" =>
           \A e \in {"succeeded", "skipped", "dead"} : e \notin ledger[i]
    BY <1>2 DEF RInv, LedgerAgrees
  <2> QED BY <1>2, <1>9, <2>1 DEF With, Children
<1>12. Counts(g)'
  <2>1. Cardinality({}) = 0
    BY FS_EmptySet
  <2>2. /\ Cardinality(With(Children(g), "succeeded")') = 0
        /\ Cardinality(With(Children(g), "dead")') = 0
        /\ Cardinality(With(Children(g), "skipped")') = 0
    BY <1>11, <2>1
  <2> QED BY <1>7, <2>2 DEF Counts
<1>13. Provisioned(g)'
  BY <1>3, <1>7, <1>10 DEF Provisioned
<1> QED BY <1>6, <1>12, <1>13 DEF GInv

\* A submit or a resubmit inserts one row outside every gate; a fan-out opens one.
LEMMA ClientGInv ==
    ASSUME GInv, RInv', Effects, NEW rows, Inserts(rows)
    PROVE  GInv'
<1>1. CASE FansOut(rows)
  BY <1>1, FanOutGInv
<1>2. CASE ~FansOut(rows)
  <2>1. /\ RInv /\ gates' = gates /\ Fills(jobs, jobs', rows) /\ ledger' = ledger
        /\ rows = <<rows[1]>> /\ rows[1].spec.gate = 0
        /\ \A k \in DOMAIN rows : rows[k].origin.kind \in {"client", "replay"}
    BY <1>2, ZenonT(60) DEF GInv, Inserts
  <2>2. \A k \in DOMAIN rows : rows[k].spec.gate = 0
    <3> DEFINE r == rows[1]
    <3>1. rows = <<r>> /\ r.spec.gate = 0
      BY <2>1
    <3> HIDE DEF r
    <3> QED BY <3>1
  <2>3. ASSUME NEW g \in GateId
        PROVE  Children(g)' = Children(g) /\ FollowUps("gate", g)' = FollowUps("gate", g)
    <3>1. g # 0
      BY EngineAssumption
    <3>2. Children(g)' = Children(g)
      BY <2>1, <2>2, <3>1, SameChildren
    <3>3. [kind |-> "gate", of |-> g].kind = "gate"
      OBVIOUS
    <3>4. NoFollower(rows, "gate", g)
      BY <2>1, <3>3 DEF NoFollower
    <3>5. FollowUps("gate", g)' = FollowUps("gate", g)
      BY <2>1, <3>4, NoneBorn
    <3> QED BY <3>2, <3>5
  <2> QED BY <2>1, <2>3, SameGate DEF GInv
<1> QED BY <1>1, <1>2

\* Initially no gate is taken.
LEMMA InitGInv == Init => GInv
<1> SUFFICES ASSUME Init PROVE GInv
  OBVIOUS
<1>1. RInv
  BY InitRInv
<1>2. \A i \in JobId : jobs[i] = NoRow /\ jobs[i].spec.gate = 0 /\ jobs[i].origin.kind = "none"
  BY DEF Init, NoRow, NewRow, NoSpec
<1>3. \A g \in GateId : g # 0 /\ gates[g] = NoGate
  BY EngineAssumption DEF Init
<1>4. /\ NoGate.expected = 0 /\ NoGate.completed = 0 /\ NoGate.succeeded = 0 /\ NoGate.failed = 0
      /\ NoGate.on_complete.gate = 0
  BY DEF NoGate, NoSpec
<1>5. \A g \in GateId : Children(g) = {} /\ FollowUps("gate", g) = {}
  <2>1. \A g : [kind |-> "gate", of |-> g].kind = "gate"
    OBVIOUS
  <2> QED BY <1>2, <1>3, <2>1 DEF Children, FollowUps
<1>6. \A e : With({}, e) = {}
  BY DEF With
<1>7. Cardinality({}) = 0
  BY FS_EmptySet
<1>8. ASSUME NEW g \in GateId PROVE Counts(g) /\ Provisioned(g)
  <2>1. Provisioned(g)
    BY <1>3, <1>4, <1>5, <1>7 DEF Provisioned
  <2>2. \A e : Cardinality(With(Children(g), e)) = 0
    BY <1>5, <1>6, <1>7
  <2>3. gates[g].completed = 0 /\ gates[g].succeeded = 0 /\ gates[g].failed = 0
    BY <1>3, <1>4
  <2> QED BY <2>1, <2>2, <2>3 DEF Counts
<1> QED BY <1>1, <1>8 DEF GInv

\* Every step keeps the counts of every gate.
LEMMA NextGInv ==
    ASSUME GInv, [Next]_vars
    PROVE  GInv'
<1>1. RInv' /\ Effects /\ RInv
  BY NextRInv DEF GInv
<1>2. Calm \/ (\E rows : Inserts(rows)) \/ Completes \/ Dies
  BY <1>1, NextKinds DEF RInv
<1>3. CASE Calm
  BY <1>1, <1>3, CalmGInv
<1>4. CASE \E rows : Inserts(rows)
  BY <1>1, <1>4, ClientGInv
<1>5. CASE Completes
  BY <1>1, <1>5, CompleteSettles, SettledGInv DEF Completes
<1>6. CASE Dies
  BY <1>1, <1>6, DieSettles, SettledGInv DEF Dies
<1> QED BY <1>2, <1>3, <1>4, <1>5, <1>6

\* For any number of gates and children, under every interleaving of answers,
\* deaths, cancels and sweeper passes, a gate row counts exactly its settled
\* children: no child is counted twice or missed, whichever of complete, fail and
\* the sweeper settles it, and completed never exceeds expected_children.
THEOREM GatesCountTheirChildren == Spec => []GateCountsChildren
<1>1. GInv => GateCountsChildren
  <2> SUFFICES ASSUME GInv, NEW g \in GateId
               PROVE  /\ gates[g].succeeded = Cardinality(With(Children(g), "succeeded"))
                      /\ gates[g].failed = Cardinality(With(Children(g), "dead"))
                      /\ gates[g].completed = Cardinality(With(Children(g), "succeeded"))
                            + Cardinality(With(Children(g), "dead"))
                            + Cardinality(With(Children(g), "skipped"))
                      /\ gates[g].completed <= gates[g].expected
    BY DEF GateCountsChildren
  <2> DEFINE done == Cardinality({j \in Children(g) : jobs[j].state \in {"succeeded", "dead"}})
             kids == Cardinality(Children(g))
  <2>1. Counts(g) /\ Provisioned(g) /\ RInv
    BY DEF GInv
  <2>2. gates[g].completed = done /\ done <= kids /\ IsFiniteSet(Children(g))
    BY <2>1, CountedSets DEF Counts
  <2>3. kids <= gates[g].expected
    BY <2>1 DEF Provisioned
  <2>4. gates[g].completed \in Nat /\ gates[g].expected \in Nat /\ kids \in Nat
    BY <2>1, <2>2, FS_CardinalityType DEF RInv, IInv, TypeOK, Gate
  <2> HIDE DEF done, kids
  <2>5. gates[g].completed <= gates[g].expected
    BY <2>2, <2>3, <2>4
  <2> QED BY <2>1, <2>5 DEF Counts
<1>2. GInv /\ [Next]_vars => GInv'
  BY NextGInv
<1> QED BY <1>1, <1>2, InitGInv, PTL DEF Spec

-----------------------------------------------------------------------------
(***************************************************************************)
(* The branch a gate takes.                                                *)
(***************************************************************************)
\* Fan-outs whose on_complete no dedup key can refuse, and whose quorum is
\* positive (core/gates.py rejects any other).
PlainGateSpecs ==
    \A gs \in GateSpecs : gs.on_complete.dedup = Null /\ (gs.policy = "quorum" => gs.quorum_n > 0)

\* The policy, told from the counts of the gate row.
RowHolds(r) ==
    CASE r.policy = "all_success" -> r.completed = r.expected /\ r.failed = 0
      [] r.policy = "all_terminal" -> r.completed = r.expected
      [] r.policy = "quorum" -> r.succeeded >= r.quorum_n \/ r.succeeded = r.expected
      [] OTHER -> FALSE

Decided(r) ==
    /\ r.on_complete.dedup = Null
    /\ r.policy = "quorum" => r.quorum_n > 0
    /\ r.expected > 0 => r.policy # "none"
    /\ r.fired <=> RowHolds(r) \/ (r.expected > 0 /\ r.completed = r.expected)

\* GateBranch, told from the gate row.
Branched(g) ==
    LET r == gates[g]
        made == FollowUps("gate", g)
    IN  /\ Decided(r)
        /\ Cardinality(made) = IF r.fired /\ (RowHolds(r) \/ r.on_complete.hook # <<>>) THEN 1 ELSE 0
        /\ \A k \in made : jobs[k].spec.path = IF RowHolds(r) THEN r.on_complete.path
                                               ELSE r.on_complete.hook

BInv == GInv /\ \A g \in GateId : Branched(g)

\* A bump of an open gate decides it by the counts after the bump, and a gate
\* that had fired before its last child keeps its branch.
LEMMA BumpDecides ==
    ASSUME NEW r \in Gate, NEW s \in Gate, NEW ev, Bumps(r, s, ev), Decided(r), r.expected > 0,
           s.completed <= s.expected, s.succeeded <= s.completed, r.succeeded <= r.completed
    PROVE  /\ Decided(s)
           /\ is_satisfied(s) <=> RowHolds(s)
           /\ r.fired => s.fired /\ RowHolds(r) /\ RowHolds(s)
<1>1. /\ r.completed \in Nat /\ r.succeeded \in Nat /\ r.failed \in Nat /\ r.expected \in Nat
      /\ r.quorum_n \in Nat /\ r.policy \in {"all_success", "all_terminal", "quorum"}
      /\ s.completed \in Nat /\ s.succeeded \in Nat /\ s.failed \in Nat
  BY DEF Gate, Decided
<1>2. /\ s.completed = r.completed + 1 /\ s.succeeded >= r.succeeded
      /\ s.expected = r.expected /\ s.policy = r.policy /\ s.quorum_n = r.quorum_n
      /\ s.on_complete = r.on_complete
      /\ s.fired <=> r.fired \/ is_satisfied(s) \/ s.completed >= s.expected
  BY <1>1 DEF Bumps
<1>3. is_satisfied(s) <=> RowHolds(s)
  <2>1. CASE r.policy = "all_success"
    BY <1>1, <1>2, <2>1 DEF is_satisfied, RowHolds
  <2>2. CASE r.policy = "all_terminal"
    BY <1>1, <1>2, <2>2 DEF is_satisfied, RowHolds
  <2>3. CASE r.policy = "quorum"
    BY <1>1, <1>2, <2>3 DEF is_satisfied, RowHolds
  <2> QED BY <1>1, <2>1, <2>2, <2>3
<1>4. r.fired => RowHolds(r) /\ RowHolds(s)
  <2> SUFFICES ASSUME r.fired PROVE RowHolds(r) /\ RowHolds(s)
    OBVIOUS
  <2>1. r.completed # r.expected /\ r.succeeded # r.expected
    BY <1>1, <1>2
  <2>2. RowHolds(r)
    BY <2>1 DEF Decided
  <2>3. r.policy = "quorum" /\ r.succeeded >= r.quorum_n
    BY <1>1, <2>1, <2>2 DEF RowHolds
  <2>4. s.policy = "quorum" /\ s.succeeded >= s.quorum_n
    BY <1>1, <1>2, <2>3
  <2>5. RowHolds(s)
    BY <2>4 DEF RowHolds
  <2> QED BY <2>2, <2>5
<1>5. s.fired <=> RowHolds(s) \/ s.completed = s.expected
  <2>1. s.completed >= s.expected <=> s.completed = s.expected
    BY <1>1, <1>2
  <2> QED BY <1>2, <1>3, <1>4, <2>1
<1>6. Decided(s)
  BY <1>1, <1>2, <1>5 DEF Decided
<1> QED BY <1>2, <1>3, <1>4, <1>6

\* The counts of a taken gate are ordered.
LEMMA OrderedCounts ==
    ASSUME GInv, NEW g \in GateId
    PROVE  gates[g] \in Gate /\ gates[g].succeeded <= gates[g].completed /\ gates[g].completed <= gates[g].expected
<1> DEFINE done == Cardinality({j \in Children(g) : jobs[j].state \in {"succeeded", "dead"}})
           kids == Cardinality(Children(g))
           ok == Cardinality(With(Children(g), "succeeded"))
           bad == Cardinality(With(Children(g), "dead"))
           skip == Cardinality(With(Children(g), "skipped"))
<1>1. Counts(g) /\ Provisioned(g) /\ RInv
  BY DEF GInv
<1>2. gates[g] \in Gate
  BY <1>1 DEF RInv, IInv, TypeOK
<1>3. /\ IsFiniteSet(Children(g)) /\ IsFiniteSet(With(Children(g), "succeeded"))
      /\ IsFiniteSet(With(Children(g), "dead")) /\ IsFiniteSet(With(Children(g), "skipped"))
      /\ ok + bad + skip = done /\ done <= kids
  BY <1>1, CountedSets
<1>4. ok \in Nat /\ bad \in Nat /\ skip \in Nat /\ kids \in Nat
  BY <1>3, FS_CardinalityType
<1>5. gates[g].succeeded = ok /\ gates[g].completed = ok + bad + skip /\ kids <= gates[g].expected
  BY <1>1 DEF Counts, Provisioned
<1>6. gates[g].expected \in Nat
  BY <1>2 DEF Gate
<1> HIDE DEF done, kids, ok, bad, skip
<1> QED BY <1>2, <1>3, <1>4, <1>5, <1>6

\* The rows a settling job leaves behind at its gate: what GateBorn lists.
LEMMA GateFollowUps ==
    ASSUME RInv, RInv', NEW j \in JobId, NEW ev, GateSettled(j, ev),
           NEW g \in GateId, jobs[j].spec.gate = g
    PROVE  /\ GateBorn(g) = <<>> => FollowUps("gate", g)' = FollowUps("gate", g)
           /\ \A r : /\ GateBorn(g) = <<r>> /\ r.spec.dedup = Null
                     /\ r.origin = [kind |-> "gate", of |-> g]
                     => \E new \in JobId \ FollowUps("gate", g) :
                           /\ FollowUps("gate", g)' = FollowUps("gate", g) \cup {new}
                           /\ jobs'[new] = r
<1> DEFINE from == [kind |-> "gate", of |-> g]
<1>1. PICK T, list, own, gate, p :
              /\ Absent(T) = Absent(jobs) /\ Fills(T, jobs', list)
              /\ SettleList(j, list, own, gate, p)
  BY ZenonT(60) DEF GateSettled
<1>2. /\ own \in {<<>>, <<p>>} /\ gate = GateBorn(g)
      /\ list \in {own \o gate, gate \o own} /\ Effects
  BY <1>1, EngineAssumption, ZenonT(60) DEF SettleList, GateSettled
<1>3. p.origin # from
  <2>1. from.kind = "gate"
    OBVIOUS
  <2> HIDE DEF from
  <2> QED BY <1>1, <2>1, ZenonT(60) DEF SettleList
<1>4. ASSUME gate = <<>> PROVE FollowUps("gate", g)' = FollowUps("gate", g)
  <2>1. list \in {<<>>, <<p>>}
    BY <1>2, <1>4, ShortLists
  <2>2. NoFollower(list, "gate", g)
    <3>1. \A k \in DOMAIN list : list[k].origin # from
      <4> HIDE DEF from
      <4> QED BY <1>3, <2>1
    <3> QED BY <3>1 DEF NoFollower
  <2> QED BY <1>1, <1>2, <2>2, NoneBorn
<1>5. ASSUME NEW r, gate = <<r>>, r.spec.dedup = Null, r.origin = from
      PROVE  \E new \in JobId \ FollowUps("gate", g) :
                               /\ FollowUps("gate", g)' = FollowUps("gate", g) \cup {new}
                               /\ jobs'[new] = r
  <2>1. OnceIn(list, gate, own, r, p.origin)
    <3> HIDE DEF from
    <3>1. GateList(own, p.origin)
      BY <1>2 DEF GateList
    <3>2. gate \in {<<>>, <<r>>} /\ list \in {gate \o own, own \o gate} /\ p.origin # r.origin
      BY <1>2, <1>3, <1>5
    <3> QED BY <3>1, <3>2, OwnRows, ZenonT(60)
  <2>2. PICK k \in DOMAIN list : list[k] = r /\ \A m \in DOMAIN list : list[m].origin = from <=> m = k
    BY <1>5, <2>1 DEF OnceIn
  <2>3. OnlyFollower(list, k, "gate", g)
    BY <1>5, <2>2 DEF OnlyFollower
  <2>4. OneMore("gate", g, list[k])
    BY <1>1, <1>2, <2>3, OneBorn
  <2> QED BY <2>2, <2>4 DEF OneMore
<1> QED BY <1>2, <1>4, <1>5, ZenonT(60)

\* A gate that a step does not touch keeps its branch.
LEMMA SameBranch ==
    ASSUME RInv, RInv', Effects, NEW g \in GateId, Branched(g), gates'[g] = gates[g],
           FollowUps("gate", g)' = FollowUps("gate", g)
    PROVE  Branched(g)'
<1>1. \A k \in FollowUps("gate", g) : jobs'[k].spec = jobs[k].spec
  <2>1. [kind |-> "gate", of |-> g].kind = "gate" /\ NoRow.origin.kind = "none"
    BY DEF NoRow, NewRow
  <2>2. \A k \in FollowUps("gate", g) : k \in JobId /\ jobs[k].state # "absent"
    BY <2>1 DEF FollowUps, RInv, BlankRows
  <2> QED BY <2>2, SettledStays
<1> QED BY <1>1, ZenonT(60) DEF Branched

\* A calm step touches no gate.
LEMMA CalmBInv ==
    ASSUME BInv, GInv', Effects, Calm
    PROVE  BInv'
<1>1. RInv /\ RInv' /\ gates' = gates
  BY DEF BInv, GInv, Calm
<1>2. \A i \in JobId : jobs'[i].origin = jobs[i].origin
  BY <1>1, SettledStays DEF Calm
<1>3. \A g \in GateId : FollowUps("gate", g)' = FollowUps("gate", g)
  BY <1>2 DEF FollowUps
<1> QED BY <1>1, <1>3, SameBranch DEF BInv

\* A client inserts no follow-up of a gate, and a fan-out opens an undecided one.
LEMMA ClientBInv ==
    ASSUME PlainGateSpecs, BInv, GInv', Effects, NEW rows, Inserts(rows)
    PROVE  BInv'
<1>1. RInv /\ RInv' /\ Fills(jobs, jobs', rows)
  BY ZenonT(60) DEF BInv, GInv, Inserts
<1>2. \A h \in GateId : FollowUps("gate", h)' = FollowUps("gate", h)
  <2> SUFFICES ASSUME NEW h \in GateId PROVE FollowUps("gate", h)' = FollowUps("gate", h)
    OBVIOUS
  <2>1. [kind |-> "gate", of |-> h].kind = "gate"
    OBVIOUS
  <2>2. NoFollower(rows, "gate", h)
    BY <2>1, ZenonT(60) DEF Inserts, NoFollower
  <2> QED BY <1>1, <2>2, NoneBorn
<1>3. CASE ~FansOut(rows)
  <2>1. gates' = gates
    BY <1>3, ZenonT(60) DEF Inserts
  <2> QED BY <1>1, <1>2, <2>1, SameBranch DEF BInv
<1>4. CASE FansOut(rows)
  <2>1. PICK g \in GateId, gs \in GateSpecs :
        /\ gates[g].expected = 0
        /\ gates' = [gates EXCEPT ![g] =
                        [NoGate EXCEPT !.policy = gs.policy, !.quorum_n = gs.quorum_n,
                                       !.expected = Len(gs.children),
                                       !.on_complete = gs.on_complete]]
    BY <1>4, ZenonT(60) DEF FansOut
  <2>2. gates \in [GateId -> Gate]
    BY <1>1 DEF RInv, IInv, TypeOK
  <2>3. \A h \in GateId \ {g} : Branched(h)'
    <3>1. \A h \in GateId \ {g} : gates'[h] = gates[h] /\ Branched(h)
      BY <2>1, <2>2 DEF BInv
    <3> QED BY <1>1, <1>2, <3>1, SameBranch, ZenonT(60)
  <2>4. /\ Len(gs.children) \in Nat \ {0} /\ gs.policy \in {"all_success", "all_terminal", "quorum"}
        /\ gs.quorum_n \in Nat
    <3>1. gs \in GateSpec_t
      BY EngineAssumption
    <3>2. gs.children \in Seq(Spec_t) /\ gs.children # <<>>
      BY <3>1 DEF GateSpec_t
    <3>3. gs.policy \in {"all_success", "all_terminal", "quorum"} /\ gs.quorum_n \in Nat
      BY <3>1 DEF GateSpec_t
    <3> QED BY <3>2, <3>3
  <2>5. /\ gates'[g].expected = Len(gs.children) /\ gates'[g].on_complete = gs.on_complete
        /\ gates'[g].policy = gs.policy /\ gates'[g].quorum_n = gs.quorum_n
        /\ gates'[g].completed = 0 /\ gates'[g].succeeded = 0 /\ gates'[g].fired = FALSE
    <3> DEFINE n == Len(gs.children)
               row == [NoGate EXCEPT !.policy = gs.policy, !.quorum_n = gs.quorum_n,
                                     !.expected = n, !.on_complete = gs.on_complete]
    <3>1. gates'[g] = row
      BY <2>1, <2>2
    <3> HIDE DEF n
    <3>2. /\ row.expected = n /\ row.on_complete = gs.on_complete
          /\ row.policy = gs.policy /\ row.quorum_n = gs.quorum_n
          /\ row.completed = 0 /\ row.succeeded = 0 /\ row.fired = FALSE
      BY DEF NoGate
    <3> HIDE DEF row
    <3> QED BY <3>1, <3>2 DEF n
  <2>6. FollowUps("gate", g)' = {}
    BY <1>2, <2>1 DEF BInv, GInv, Provisioned
  <2>7. ~RowHolds(gates'[g])
    <3>1. gs.policy = "quorum" => gs.quorum_n > 0
      BY DEF PlainGateSpecs
    <3> QED BY <2>4, <2>5, <3>1 DEF RowHolds
  <2>8. Decided(gates'[g])
    BY <2>4, <2>5, <2>7 DEF Decided, PlainGateSpecs
  <2>9. Branched(g)'
    BY <2>5, <2>6, <2>8, FS_EmptySet, ZenonT(60) DEF Branched
  <2> QED BY <2>3, <2>9 DEF BInv
<1> QED BY <1>3, <1>4

\* The transaction that settles a child decides its gate, and inserts the row the
\* decision calls for.
LEMMA SettledBInv ==
    ASSUME BInv, GInv', NEW j \in JobId, NEW ev, GateSettled(j, ev)
    PROVE  BInv'
<1>1. GInv /\ RInv /\ RInv' /\ Effects /\ jobs[j].state = "running"
  BY DEF BInv, GInv, GateSettled
<1>2. ASSUME NEW h \in GateId, jobs[j].spec.gate # h PROVE Branched(h)'
  <2>1. gates'[h] = gates[h] /\ Branched(h)
    BY <1>2, ZenonT(60) DEF GateSettled, BInv
  <2>2. FollowUps("gate", h)' = FollowUps("gate", h)
    BY <1>1, <1>2, OtherGates
  <2> QED BY <1>1, <2>1, <2>2, SameBranch
<1>3. ASSUME NEW g \in GateId, jobs[j].spec.gate = g PROVE Branched(g)'
  <2> DEFINE r == gates[g]
             s == gates'[g]
             from == [kind |-> "gate", of |-> g]
  <2>1. Bumps(r, s, ev) /\ Branched(g) /\ Decided(r)
    BY <1>3, ZenonT(60) DEF GateSettled, BInv, Branched
  <2>2. r.expected > 0 /\ r \in Gate /\ r.succeeded <= r.completed
    <3>1. j \in Children(g)
      BY <1>3 DEF Children
    <3>2. r.expected # 0
      BY <1>1, <3>1, ZenonT(60) DEF GInv, Provisioned
    <3>3. r \in Gate /\ r.succeeded <= r.completed
      BY <1>1, OrderedCounts
    <3> QED BY <3>2, <3>3 DEF Gate
  <2>3. s \in Gate /\ s.succeeded <= s.completed /\ s.completed <= s.expected
    <3>1. (gates[g] \in Gate /\ gates[g].succeeded <= gates[g].completed
                            /\ gates[g].completed <= gates[g].expected)'
      BY OrderedCounts, PTL
    <3> QED BY <3>1
  <2>4. /\ Decided(s)
        /\ is_satisfied(s) <=> RowHolds(s)
        /\ r.fired => s.fired /\ RowHolds(r) /\ RowHolds(s)
    BY <2>1, <2>2, <2>3, BumpDecides, ZenonT(60)
  <2>5. s.on_complete = r.on_complete /\ s.on_complete.dedup = Null
    BY <2>1, <2>4 DEF Bumps, Decided
  <2> DEFINE made == FollowUps("gate", g)
             next == s.on_complete
  <2>6. \A k \in made : jobs'[k].spec = jobs[k].spec
    <3>1. from.kind = "gate" /\ NoRow.origin.kind = "none"
      BY DEF NoRow, NewRow
    <3>2. \A k \in made : k \in JobId /\ jobs[k].state # "absent"
      BY <1>1, <3>1 DEF FollowUps, RInv, BlankRows
    <3> QED BY <1>1, <3>2, SettledStays
  <2>7. IsFiniteSet(made)
    BY EngineAssumption, FS_Subset DEF FollowUps
  <2>8. /\ Cardinality(made) = IF r.fired /\ (RowHolds(r) \/ next.hook # <<>>) THEN 1 ELSE 0
        /\ \A k \in made : jobs[k].spec.path = IF RowHolds(r) THEN next.path ELSE next.hook
    BY <2>1, <2>5 DEF Branched
  <2>9. ~r.fired => made = {}
    BY <2>7, <2>8, FS_EmptySet
  <2>10. /\ GateBorn(g) = <<>> => made' = made
         /\ \A b : GateBorn(g) = <<b>> /\ b.spec.dedup = Null /\ b.origin = from
                      => \E new \in JobId \ made : made' = made \cup {new} /\ jobs'[new] = b
    BY <1>1, <1>3, GateFollowUps, ZenonT(60)
  <2>11. \A x : NewRow("queued", x, from).spec = x /\ NewRow("queued", x, from).origin = from
    BY DEF NewRow
  <2>12. HookSpec(next).dedup = Null /\ HookSpec(next).path = next.hook
    BY DEF HookSpec, NoSpec
  <2>13. \A x : Cardinality({x}) = 1
    BY FS_Singleton, ZenonT(60)
  <2> SUFFICES /\ Cardinality(made') = IF s.fired /\ (RowHolds(s) \/ next.hook # <<>>) THEN 1 ELSE 0
               /\ \A k \in made' : jobs'[k].spec.path = IF RowHolds(s) THEN next.path ELSE next.hook
    BY <2>4 DEF Branched
  <2>14. CASE r.fired
    <3>1. made' = made
      BY <2>10, <2>14, ZenonT(60) DEF GateBorn
    <3> HIDE DEF made, next
    <3> QED BY <2>4, <2>6, <2>8, <2>14, <3>1, ZenonT(60)
  <2>15. CASE ~s.fired
    <3>1. made' = made
      BY <2>10, <2>15, ZenonT(60) DEF GateBorn
    <3>2. made = {}
      BY <2>4, <2>9, <2>15
    <3> HIDE DEF made, next
    <3> QED BY <2>15, <3>1, <3>2, FS_EmptySet
  <2>16. ASSUME ~r.fired, NEW x, x.dedup = Null, GateBorn(g) = <<NewRow("queued", x, from)>>
         PROVE  Cardinality(made') = 1 /\ \A k \in made' : jobs'[k].spec = x
    <3>1. made = {}
      BY <2>9, <2>16
    <3> DEFINE b == NewRow("queued", x, from)
    <3>2. b.spec = x /\ b.origin = from /\ GateBorn(g) = <<b>>
      BY <2>11, <2>16
    <3> HIDE DEF b, from
    <3>3. \E new \in JobId \ made : made' = made \cup {new} /\ jobs'[new] = b
      BY <2>10, <2>16, <3>2
    <3>4. PICK new : made' = {new} /\ jobs'[new] = b
      BY <3>1, <3>3
    <3> HIDE DEF made
    <3> QED BY <2>13, <3>2, <3>4, ZenonT(60)
  <2>17. CASE ~r.fired /\ s.fired /\ RowHolds(s)
    <3>1. GateBorn(g) = <<NewRow("queued", next, from)>>
      BY <2>4, <2>17 DEF GateBorn
    <3>2. Cardinality(made') = 1 /\ \A k \in made' : jobs'[k].spec = next
      BY <2>5, <2>16, <2>17, <3>1, ZenonT(60)
    <3> HIDE DEF made, next
    <3> QED BY <2>17, <3>2
  <2>18. CASE ~r.fired /\ s.fired /\ ~RowHolds(s) /\ next.hook = <<>>
    <3>1. made' = made
      BY <2>4, <2>10, <2>18, ZenonT(60) DEF GateBorn
    <3>2. made = {}
      BY <2>9, <2>18
    <3> HIDE DEF made, next
    <3> QED BY <2>18, <3>1, <3>2, FS_EmptySet, ZenonT(60)
  <2>19. CASE ~r.fired /\ s.fired /\ ~RowHolds(s) /\ next.hook # <<>>
    <3>1. GateBorn(g) = <<NewRow("queued", HookSpec(next), from)>>
      BY <2>4, <2>19, ZenonT(60) DEF GateBorn
    <3> DEFINE x == HookSpec(next)
    <3>2. x.dedup = Null /\ x.path = next.hook /\ GateBorn(g) = <<NewRow("queued", x, from)>>
      BY <2>12, <3>1
    <3> HIDE DEF x
    <3>3. Cardinality(made') = 1 /\ \A k \in made' : jobs'[k].spec = x
      BY <2>16, <2>19, <3>2
    <3> HIDE DEF made, next
    <3> QED BY <2>19, <3>2, <3>3, ZenonT(60)
  <2> QED BY <2>14, <2>15, <2>17, <2>18, <2>19, ZenonT(60)
<1> QED BY <1>2, <1>3 DEF BInv

\* Initially no gate is taken, so none is decided.
LEMMA InitBInv == Init => BInv
<1> SUFFICES ASSUME Init PROVE BInv
  OBVIOUS
<1>1. GInv
  BY InitGInv
<1>2. ASSUME NEW g \in GateId PROVE Branched(g)
  <2>1. gates[g] = NoGate /\ NoGate.expected = 0
    BY DEF Init, NoGate
  <2>2. FollowUps("gate", g) = {}
    BY <1>1, <2>1 DEF GInv, Provisioned
  <2>3. ~RowHolds(NoGate) /\ Decided(NoGate) /\ NoGate.fired = FALSE
    BY DEF NoGate, RowHolds, Decided, NoSpec
  <2> QED BY <2>1, <2>2, <2>3, FS_EmptySet, ZenonT(60) DEF Branched
<1> QED BY <1>1, <1>2 DEF BInv

\* Every step keeps every gate on its branch.
LEMMA NextBInv ==
    ASSUME PlainGateSpecs, BInv, [Next]_vars
    PROVE  BInv'
<1>1. GInv /\ GInv' /\ RInv
  BY NextGInv DEF BInv, GInv
<1>2. RInv' /\ Effects
  BY <1>1, NextRInv
<1>3. Calm \/ (\E rows : Inserts(rows)) \/ Completes \/ Dies
  BY <1>1, NextKinds DEF RInv
<1>4. CASE Calm
  BY <1>1, <1>2, <1>4, CalmBInv
<1>5. CASE \E rows : Inserts(rows)
  BY <1>1, <1>2, <1>5, ClientBInv
<1>6. CASE Completes
  BY <1>1, <1>6, CompleteSettles, SettledBInv DEF Completes
<1>7. CASE Dies
  BY <1>1, <1>7, DieSettles, SettledBInv DEF Dies
<1> QED BY <1>3, <1>4, <1>5, <1>6, <1>7

\* The counts of the row are those of the children, so is the branch.
LEMMA BranchOfChildren ==
    ASSUME BInv, NEW g \in GateId
    PROVE  LET kids == Children(g)
               settled == Cardinality({j \in kids : jobs[j].state \in {"succeeded", "dead"}})
           IN  /\ gates[g].succeeded = Cardinality(With(kids, "succeeded"))
               /\ gates[g].completed = settled
               /\ gates[g].failed = 0 <=> With(kids, "dead") = {}
<1>1. Counts(g) /\ RInv
  BY DEF BInv, GInv
<1>2. /\ IsFiniteSet(With(Children(g), "dead"))
      /\ Cardinality(With(Children(g), "succeeded")) + Cardinality(With(Children(g), "dead"))
            + Cardinality(With(Children(g), "skipped"))
         = Cardinality({j \in Children(g) : jobs[j].state \in {"succeeded", "dead"}})
  BY <1>1, CountedSets
<1>3. With(Children(g), "dead") = {} <=> Cardinality(With(Children(g), "dead")) = 0
  BY <1>2, FS_EmptySet
<1> QED BY <1>1, <1>2, <1>3 DEF Counts

\* For any fan-outs whose on_complete has no dedup key and whose quorum is
\* positive, and under every interleaving of answers, deaths, cancels and sweeper
\* passes: a gate fires if and only if its policy holds of its settled children
\* or all of them settled, at most one transaction inserts its follow-up, and
\* that is on_complete when the policy holds and its on_failure when it does not.
THEOREM GatesTakeTheirBranch ==
    ASSUME PlainGateSpecs
    PROVE  Spec => []GateBranch
<1>1. BInv => GateBranch
  <2> SUFFICES ASSUME BInv, NEW g \in GateId
               PROVE
        LET made == FollowUps("gate", g)
            kids == Children(g)
            ok == Cardinality(With(kids, "succeeded"))
            settled == Cardinality({j \in kids : jobs[j].state \in {"succeeded", "dead"}})
            holds == CASE gates[g].policy = "all_success" ->
                              settled = gates[g].expected /\ With(kids, "dead") = {}
                       [] gates[g].policy = "all_terminal" -> settled = gates[g].expected
                       [] gates[g].policy = "quorum" ->
                              ok >= gates[g].quorum_n \/ ok = gates[g].expected
                       [] OTHER -> FALSE
        IN  /\ gates[g].fired <=> holds \/ (gates[g].expected > 0 /\ settled = gates[g].expected)
            /\ Cardinality(made) =
                  (IF gates[g].fired /\ (holds \/ gates[g].on_complete.hook # <<>>)
                   THEN 1 ELSE 0)
            /\ \A k \in made : jobs[k].spec.path = IF holds THEN gates[g].on_complete.path
                                                   ELSE gates[g].on_complete.hook
    BY ZenonT(60) DEF GateBranch
  <2> DEFINE kids == Children(g)
             ok == Cardinality(With(kids, "succeeded"))
             settled == Cardinality({j \in kids : jobs[j].state \in {"succeeded", "dead"}})
             holds == CASE gates[g].policy = "all_success" ->
                              settled = gates[g].expected /\ With(kids, "dead") = {}
                        [] gates[g].policy = "all_terminal" -> settled = gates[g].expected
                        [] gates[g].policy = "quorum" ->
                              ok >= gates[g].quorum_n \/ ok = gates[g].expected
                        [] OTHER -> FALSE
  <2>1. /\ gates[g].succeeded = ok /\ gates[g].completed = settled
        /\ gates[g].failed = 0 <=> With(kids, "dead") = {}
    BY BranchOfChildren
  <2>2. holds <=> RowHolds(gates[g])
    <3> HIDE DEF kids, ok, settled
    <3> QED BY <2>1 DEF RowHolds
  <2>3. Branched(g)
    BY DEF BInv
  <2> HIDE DEF holds, settled, ok
  <2> QED BY <2>1, <2>2, <2>3, ZenonT(60) DEF Branched, Decided, holds, settled, ok
<1>2. Init => BInv
  BY InitBInv
<1>3. BInv /\ [Next]_vars => BInv'
  BY NextBInv
<1> QED BY <1>1, <1>2, <1>3, PTL DEF Spec
=============================================================================
