--------------------------- MODULE WorkflowsProofs ---------------------------
(***************************************************************************)
(* The executor runs what the service has accepted, for workflows of any   *)
(* size.  The order it walks comes to no step again, because a step has    *)
(* one connection to it at most, and the first none (WalkedNew); it comes  *)
(* to all steps of an accepted workflow, because what the service follows  *)
(* from the root on is closed under the connections (FollowedWithin), and  *)
(* as many different steps as there are are all of them.                   *)
(*                                                                         *)
(* The search for cycles ends because every step it enters, and every      *)
(* round of its innermost loop, leaves it less to go (ToGoFalls), and what *)
(* it has finished has no cycle and no connection out of it (Explorable).  *)
(***************************************************************************)
EXTENDS Workflows, FiniteSetTheorems, TLAPS

(* The invariant.                                                          *)

\* The order so far is a walk along the connections, from a root to current.
Walked ==
    LET w == workflow
        n == Len(ordered)
    IN
    /\ Orderable(w)
    /\ ordered \in Seq(Range(w.steps))
    /\ \A i, j \in 1..n : ordered[i].id = ordered[j].id => i = j
    /\ \A i \in 1..n : ordered[i] = StepWith(w, ordered[i].id)
    /\ \A i \in 1..(n - 1) : [from |-> ordered[i].id, to |-> ordered[i + 1].id] \in Edges(w)
    /\ \E r \in Roots(w) : w.steps[r].id = IF n = 0 THEN current ELSE ordered[1].id
    /\ n > 0 => IF current = Missing
                  THEN Targets(w, ordered[n].id) = {}
                  ELSE [from |-> ordered[n].id, to |-> current] \in Edges(w)

WorkflowInv ==
    /\ stage # "none" => workflow \in Drafts
    /\ stage \in {"none", "received", "rejected", "stored", "walking", "ordered", "ran",
                  "skipped", "refused"}
    /\ accepted => Valid(workflow) /\ stage \in {"stored", "walking", "ordered", "ran"}
    /\ stage \in {"none", "received", "stored"} => ordered = <<>>
    /\ stage \in {"walking", "ordered", "ran", "skipped"} => Walked
    /\ stage \in {"ordered", "ran", "skipped"} => Complete(workflow)

-----------------------------------------------------------------------------
\* Induction on the numbers of a set.
LEMMA Counting ==
    ASSUME NEW S \in SUBSET Nat, 0 \in S, \A n \in S : n + 1 \in S
    PROVE  S = Nat
  <1> DEFINE R == OpToRel(<, Nat)
             T == Nat \ S
  <1>1. ASSUME T # {} PROVE FALSE
    <2>1. IsWellFoundedOn(R, Nat)
      BY NatLessThanWellFounded, Zenon
    <2>2. PICK m \in T : \A n \in T : <<n, m>> \notin R
      <3> HIDE DEF R, T
      <3>1. T \subseteq Nat
        BY DEF T
      <3> QED
        BY <1>1, <2>1, <3>1, WFMin
    <2>3. \A k, n \in Nat : n < k => <<n, k>> \in R
      BY Zenon DEF OpToRel
    <2> HIDE DEF R
    <2>4. m - 1 \in Nat /\ m - 1 < m /\ m = (m - 1) + 1
      OBVIOUS
    <2>5. m - 1 \notin T
      BY <2>2, <2>3, <2>4
    <2> QED
      BY <2>4, <2>5
  <1> QED
    BY <1>1

-----------------------------------------------------------------------------
(* The steps that are followed.                                            *)

Beginnings(w) == {w.steps[i].id : i \in Roots(w)}
Further(w, ids) == ids \cup UNION {Targets(w, id) : id \in ids}

LEMMA OfSequence ==
    ASSUME NEW S, NEW q \in Seq(S)
    PROVE  /\ Len(q) \in Nat /\ DOMAIN q = 1..Len(q) /\ \A i \in 1..Len(q) : q[i] \in S
           /\ Range(q) = {q[i] : i \in 1..Len(q)}
  BY DEF Range

LEMMA Drafted ==
    ASSUME NEW w \in Drafts
    PROVE  /\ w.steps \in Seq(Steps(StepIds)) /\ Len(w.steps) \in Nat
           /\ DOMAIN w.steps = 1..Len(w.steps)
           /\ w.connections \in Seq([from : StepIds, to : StepIds]) /\ Len(w.connections) \in Nat
           /\ DOMAIN w.connections = 1..Len(w.connections)
           /\ Range(w.steps) = {w.steps[i] : i \in 1..Len(w.steps)}
           /\ Range(w.steps) \subseteq Steps(StepIds)
           /\ Edges(w) = {w.connections[i] : i \in 1..Len(w.connections)}
           /\ Edges(w) \subseteq [from : StepIds, to : StepIds]
           /\ Ids(w) = {w.steps[i].id : i \in 1..Len(w.steps)} /\ Ids(w) \subseteq StepIds
           /\ \A id : Targets(w, id) \subseteq StepIds
           /\ Beginnings(w) \subseteq Ids(w)
  <1>1. w \in [steps : Seq(Steps(StepIds)), connections : Seq([from : StepIds, to : StepIds])]
    BY DraftsAssumption
  <1>2. /\ w.steps \in Seq(Steps(StepIds))
        /\ w.connections \in Seq([from : StepIds, to : StepIds])
    BY <1>1
  <1>3. /\ Len(w.steps) \in Nat /\ DOMAIN w.steps = 1..Len(w.steps)
        /\ Len(w.connections) \in Nat /\ DOMAIN w.connections = 1..Len(w.connections)
        /\ \A i \in 1..Len(w.steps) : w.steps[i] \in Steps(StepIds)
        /\ \A i \in 1..Len(w.connections) : w.connections[i] \in [from : StepIds, to : StepIds]
    BY <1>2, OfSequence
  <1>4. /\ Range(w.steps) = {w.steps[i] : i \in 1..Len(w.steps)}
        /\ Edges(w) = {w.connections[i] : i \in 1..Len(w.connections)}
    BY <1>2, OfSequence DEF Edges
  <1>5. /\ Range(w.steps) \subseteq Steps(StepIds)
        /\ Edges(w) \subseteq [from : StepIds, to : StepIds]
    BY <1>3, <1>4
  <1>6. Ids(w) = {w.steps[i].id : i \in 1..Len(w.steps)} /\ Ids(w) \subseteq StepIds
    BY <1>4, <1>5 DEF Ids, Steps
  <1>7. \A id : Targets(w, id) \subseteq StepIds
    BY <1>5 DEF Targets
  <1>8. Beginnings(w) \subseteq Ids(w)
    BY <1>3, <1>4 DEF Beginnings, Roots, Ids
  <1> QED
    BY <1>2, <1>3, <1>4, <1>5, <1>6, <1>7, <1>8

\* After n rounds those are followed that a walk of n steps, some of which
\* may stay where they are, comes to.
Round(w, n) ==
    {x \in StepIds : \E p \in [0..n -> StepIds] :
        /\ p[0] \in Beginnings(w) /\ p[n] = x
        /\ \A i \in 1..n : p[i] \in Further(w, {p[i - 1]})}

LEMMA RoundStep ==
    ASSUME NEW w \in Drafts, NEW n \in Nat, n # 0
    PROVE  Round(w, n) = Further(w, Round(w, n - 1))
  <1>0. \A id : Further(w, {id}) = {id} \cup Targets(w, id)
    BY DEF Further
  <1>1. n - 1 \in Nat /\ 0..(n - 1) \subseteq 0..n /\ n \in 0..n /\ n - 1 \in 0..(n - 1)
        /\ 0 \in 0..(n - 1) /\ n \notin 0..(n - 1) /\ n \in 1..n
        /\ \A i \in 1..(n - 1) : i \in 1..n /\ i \in 0..(n - 1) /\ i - 1 \in 0..(n - 1)
    OBVIOUS
  <1>2. ASSUME NEW x \in Round(w, n) PROVE x \in Further(w, Round(w, n - 1))
    <2>1. PICK p \in [0..n -> StepIds] : /\ p[0] \in Beginnings(w) /\ p[n] = x
                                         /\ \A i \in 1..n : p[i] \in Further(w, {p[i - 1]})
      BY DEF Round
    <2> DEFINE q == [i \in 0..(n - 1) |-> p[i]]
    <2>2. q \in [0..(n - 1) -> StepIds] /\ \A i \in 0..(n - 1) : q[i] = p[i]
      BY <1>1, <2>1
    <2> HIDE DEF q
    <2>3. q[n - 1] \in Round(w, n - 1)
      <3>1. q[0] \in Beginnings(w) /\ q[n - 1] \in StepIds
        BY <1>1, <2>1, <2>2
      <3>2. \A i \in 1..(n - 1) : q[i] \in Further(w, {q[i - 1]})
        BY <1>1, <2>1, <2>2
      <3> QED
        BY <2>2, <3>1, <3>2 DEF Round
    <2>4. x \in {q[n - 1]} \cup Targets(w, q[n - 1])
      BY <1>0, <1>1, <2>1, <2>2
    <2> QED
      BY <2>3, <2>4 DEF Further
  <1>3. ASSUME NEW x \in Further(w, Round(w, n - 1)) PROVE x \in Round(w, n)
    <2>1. PICK y \in Round(w, n - 1) : x \in Further(w, {y})
      BY <1>0, <1>3 DEF Further
    <2>2. PICK p \in [0..(n - 1) -> StepIds] :
            /\ p[0] \in Beginnings(w) /\ p[n - 1] = y
            /\ \A i \in 1..(n - 1) : p[i] \in Further(w, {p[i - 1]})
      BY DEF Round
    <2>3. x \in StepIds
      BY <1>0, <2>1, Drafted DEF Round
    <2> DEFINE q == [i \in 0..n |-> IF i = n THEN x ELSE p[i]]
    <2>4. q \in [0..n -> StepIds]
      BY <1>1, <2>2, <2>3
    <2>5. q[n] = x /\ \A i \in 0..(n - 1) : q[i] = p[i]
      BY <1>1
    <2> HIDE DEF q
    <2>6. \A i \in 1..n : q[i] \in Further(w, {q[i - 1]})
      <3>1. \A i \in 1..n : i = n \/ i \in 1..(n - 1)
        OBVIOUS
      <3> QED
        BY <1>1, <2>1, <2>2, <2>5, <3>1
    <2> QED
      BY <1>1, <2>2, <2>3, <2>4, <2>5, <2>6 DEF Round
  <1> QED
    BY <1>2, <1>3

LEMMA RoundFirst ==
    ASSUME NEW w \in Drafts
    PROVE  Round(w, 0) = Beginnings(w)
  <1>1. Beginnings(w) \subseteq StepIds
    BY Drafted
  <1>2. ASSUME NEW x \in Beginnings(w) PROVE x \in Round(w, 0)
    <2> DEFINE p == [i \in 0..0 |-> x]
    <2>1. p \in [0..0 -> StepIds] /\ p[0] = x /\ \A i \in 1..0 : FALSE
      BY <1>1
    <2> HIDE DEF p
    <2> QED
      BY <1>1, <2>1 DEF Round
  <1> QED
    BY <1>2 DEF Round

Meets(w, met) ==
    met = [n \in Nat |-> IF n = 0 THEN Beginnings(w) ELSE Further(w, met[n - 1])]

\* What is closed under the connections keeps all that is followed.
LEMMA FollowedWithin ==
    ASSUME NEW w \in Drafts, NEW ids, Beginnings(w) \subseteq ids,
           \A id \in ids : Targets(w, id) \subseteq ids
    PROVE  Followed(w) \subseteq ids
  <1> DEFINE met == CHOOSE f : Meets(w, f)
             S == {n \in Nat : met[n] \subseteq ids}
  <1>1. Followed(w) = met[Len(w.connections)]
    BY DEF Followed, Meets, Beginnings, Further
  <1>2. Meets(w, [n \in Nat |-> Round(w, n)])
    <2> DEFINE f == [n \in Nat |-> Round(w, n)]
    <2>1. \A n \in Nat : f[n] = IF n = 0 THEN Beginnings(w) ELSE Further(w, f[n - 1])
      <3>1. \A n \in Nat : n # 0 => n - 1 \in Nat
        OBVIOUS
      <3> QED
        BY <3>1, RoundFirst, RoundStep
    <2> QED
      BY <2>1 DEF Meets
  <1>3. Meets(w, met)
    BY <1>2
  <1> HIDE DEF met
  <1>4. \A n \in Nat : met[n] = IF n = 0 THEN Beginnings(w) ELSE Further(w, met[n - 1])
    BY <1>3 DEF Meets
  <1>5. 0 \in S
    BY <1>4
  <1>6. ASSUME NEW n \in S PROVE n + 1 \in S
    <2>1. n + 1 \in Nat /\ n + 1 # 0 /\ (n + 1) - 1 = n
      OBVIOUS
    <2>2. met[n + 1] = Further(w, met[n])
      BY <1>4, <2>1
    <2> QED
      BY <2>1, <2>2 DEF Further
  <1>7. S = Nat
    <2>1. S \in SUBSET Nat
      OBVIOUS
    <2> HIDE DEF S
    <2> QED
      BY <1>5, <1>6, <2>1, Counting
  <1>8. Len(w.connections) \in S
    BY <1>7, Drafted
  <1> QED
    BY <1>1, <1>8
-----------------------------------------------------------------------------
(* As many steps as places.                                                *)

LEMMA Injected ==
    ASSUME NEW m \in Nat, NEW n \in Nat, NEW f \in [1..n -> 1..m],
           \A i, j \in 1..n : f[i] = f[j] => i = j
    PROVE  n <= m
  <1>1. f \in Injection(1..n, 1..m)
    BY DEF Injection, IsInjective
  <1>2. Cardinality(1..n) = n /\ Cardinality(1..m) = m /\ IsFiniteSet(1..m)
    BY FS_Interval
  <1> QED
    BY <1>1, <1>2, FS_Injection

LEMMA NoMorePlaces ==
    ASSUME NEW w \in Drafts, NEW n \in Nat, NEW p \in [1..n -> Ids(w)],
           \A i, j \in 1..n : p[i] = p[j] => i = j
    PROVE  n <= Len(w.steps)
  <1> DEFINE f == [i \in 1..n |-> CHOOSE k \in 1..Len(w.steps) : w.steps[k].id = p[i]]
  <1>0. Ids(w) = {w.steps[k].id : k \in 1..Len(w.steps)}
    BY Drafted
  <1>1. \A i \in 1..n : \E k \in 1..Len(w.steps) : w.steps[k].id = p[i]
    BY <1>0
  <1>2. \A i \in 1..n : f[i] \in 1..Len(w.steps) /\ w.steps[f[i]].id = p[i]
    BY <1>1
  <1>3. f \in [1..n -> 1..Len(w.steps)]
    BY <1>2
  <1> HIDE DEF f
  <1>4. \A i, j \in 1..n : f[i] = f[j] => i = j
    BY <1>2
  <1> QED
    BY <1>3, <1>4, Injected, Drafted

LEMMA NoFewerPlaces ==
    ASSUME NEW w \in Drafts, NEW n \in Nat, NEW p \in [1..n -> Ids(w)],
           \A i, j \in 1..Len(w.steps) : w.steps[i].id = w.steps[j].id => i = j,
           \A id \in Ids(w) : \E i \in 1..n : p[i] = id
    PROVE  Len(w.steps) <= n
  <1> DEFINE f == [k \in 1..Len(w.steps) |-> CHOOSE i \in 1..n : p[i] = w.steps[k].id]
  <1>1. \A k \in 1..Len(w.steps) : w.steps[k].id \in Ids(w)
    BY Drafted DEF Ids
  <1>2. \A k \in 1..Len(w.steps) : f[k] \in 1..n /\ p[f[k]] = w.steps[k].id
    BY <1>1
  <1>3. f \in [1..Len(w.steps) -> 1..n]
    BY <1>2
  <1> HIDE DEF f
  <1>4. \A i, j \in 1..Len(w.steps) : f[i] = f[j] => i = j
    BY <1>2
  <1> QED
    BY <1>3, <1>4, Injected, Drafted

-----------------------------------------------------------------------------
(* Steps and connections.                                                  *)

LEMMA OneConnection ==
    ASSUME NEW w \in Drafts, NoBranch(w), NEW c \in Edges(w), NEW d \in Edges(w),
           c.to = d.to \/ c.from = d.from
    PROVE  c = d
  BY Drafted DEF NoBranch

LEMMA TheStep ==
    ASSUME NEW w \in Drafts, NEW id \in Ids(w)
    PROVE  StepWith(w, id) \in Range(w.steps) /\ StepWith(w, id).id = id
  BY DEF StepWith, Ids

LEMMA TheTarget ==
    ASSUME NEW w \in Drafts, NEW id, NEW t \in Targets(w, id)
    PROVE  [from |-> id, to |-> t] \in Edges(w) /\ t # Missing
  <1>1. PICK c \in Edges(w) : c.from = id /\ c.to = t
    BY DEF Targets
  <1>2. c = [from |-> id, to |-> t] /\ t \in StepIds
    BY <1>1, Drafted
  <1> QED
    BY <1>1, <1>2, MissingAssumption

\* What is known of the steps that are in order.
LEMMA WalkedSteps ==
    ASSUME workflow \in Drafts, Walked
    PROVE  /\ Len(ordered) \in Nat /\ DOMAIN ordered = 1..Len(ordered)
           /\ \A i \in 1..Len(ordered) : /\ ordered[i] \in Range(workflow.steps)
                                         /\ ordered[i].id \in Ids(workflow)
           /\ NoBranch(workflow) /\ Range(ordered) \subseteq Range(workflow.steps)
  <1>1. ordered \in Seq(Range(workflow.steps)) /\ Orderable(workflow)
    BY DEF Walked
  <1>2. /\ Len(ordered) \in Nat /\ DOMAIN ordered = 1..Len(ordered)
        /\ \A i \in 1..Len(ordered) : ordered[i] \in Range(workflow.steps)
        /\ Range(ordered) = {ordered[i] : i \in 1..Len(ordered)}
    BY <1>1, OfSequence
  <1> QED
    BY <1>1, <1>2 DEF Ids, Orderable

\* The loop comes to no step again.
LEMMA WalkedNew ==
    ASSUME workflow \in Drafts, Walked, current # Missing
    PROVE  \A i \in 1..Len(ordered) : ordered[i].id # current
  <1> DEFINE n == Len(ordered)
  <1> SUFFICES ASSUME NEW i \in 1..n, ordered[i].id = current PROVE FALSE
    OBVIOUS
  <1>1. n \in Nat /\ n > 0 /\ n \in 1..n
    BY WalkedSteps
  <1> DEFINE e == [from |-> ordered[n].id, to |-> current]
  <1>2. e \in Edges(workflow)
    BY <1>1 DEF Walked
  <1>3. CASE i = 1
    <2>1. PICK r \in Roots(workflow) : workflow.steps[r].id = ordered[1].id
      BY <1>1 DEF Walked
    <2>2. e.to # workflow.steps[r].id
      BY <1>2, <2>1 DEF Roots
    <2> QED
      BY <1>3, <2>1, <2>2
  <1>4. CASE i # 1
    <2> DEFINE d == [from |-> ordered[i - 1].id, to |-> ordered[i].id]
    <2>1. i - 1 \in 1..(n - 1) /\ i - 1 \in 1..n /\ (i - 1) + 1 = i /\ i - 1 # n
      BY <1>1, <1>4
    <2>2. d \in Edges(workflow)
      BY <2>1 DEF Walked
    <2>3. d = e
      <3>1. d.to = e.to
        OBVIOUS
      <3> HIDE DEF d, e
      <3> QED
        BY <1>2, <2>2, <3>1, OneConnection, WalkedSteps
    <2>4. ordered[i - 1].id = ordered[n].id
      BY <2>3
    <2> QED
      BY <1>1, <2>1, <2>4 DEF Walked
  <1> QED
    BY <1>3, <1>4

LEMMA AppendStep ==
    ASSUME NEW S, NEW q \in Seq(S), NEW x \in S
    PROVE  /\ Append(q, x) \in Seq(S) /\ Len(Append(q, x)) = Len(q) + 1
           /\ \A i \in 1..Len(q) : Append(q, x)[i] = q[i]
           /\ Append(q, x)[Len(q) + 1] = x
  OBVIOUS

LEMMA FollowWalked ==
    ASSUME workflow \in Drafts, Walked, FollowStep, current \in Ids(workflow)
    PROVE  Walked'
  <1> DEFINE n == Len(ordered)
             s == StepWith(workflow, current)
  <1>1. /\ current # Missing /\ workflow' = workflow
        /\ ordered' = IF n > Len(workflow.steps) THEN ordered ELSE Append(ordered, s)
        /\ current' = IF Targets(workflow, current) = {} THEN Missing
                      ELSE CHOOSE id \in Targets(workflow, current) : TRUE
    BY DEF FollowStep
  <1>2. /\ n \in Nat /\ Len(workflow.steps) \in Nat
        /\ \A i \in 1..n : ordered[i].id \in Ids(workflow) /\ ordered[i].id # current
        /\ \A i, j \in 1..n : ordered[i].id = ordered[j].id => i = j
    BY <1>1, WalkedSteps, WalkedNew, Drafted DEF Walked
  <1>3. s \in Range(workflow.steps) /\ s.id = current
    BY TheStep
  <1>4. ordered' = Append(ordered, s)
    <2> DEFINE p == [i \in 1..(n + 1) |-> IF i = n + 1 THEN current ELSE ordered[i].id]
    <2>1. n + 1 \in Nat /\ \A i \in 1..(n + 1) : i = n + 1 \/ i \in 1..n
      BY <1>2
    <2>2. p \in [1..(n + 1) -> Ids(workflow)]
      BY <1>2, <2>1
    <2>3. \A i, j \in 1..(n + 1) : p[i] = p[j] => i = j
      BY <1>2, <2>1
    <2> HIDE DEF p
    <2>4. n + 1 <= Len(workflow.steps)
      BY <2>1, <2>2, <2>3, NoMorePlaces
    <2> QED
      BY <1>1, <1>2, <2>4
  <1> DEFINE to == ordered'
  <1>5. /\ to \in Seq(Range(workflow.steps)) /\ Len(to) = n + 1
        /\ \A i \in 1..n : to[i] = ordered[i]
        /\ to[n + 1] = s
    <2> HIDE DEF s
    <2> QED
      BY <1>3, <1>4, AppendStep DEF Walked
  <1> HIDE DEF s
  <1>6. \A i \in 1..(n + 1) : i = n + 1 \/ i \in 1..n
    BY <1>2
  <1>7. \A i, j \in 1..(n + 1) : to[i].id = to[j].id => i = j
    BY <1>2, <1>3, <1>5, <1>6
  <1>8. \A i \in 1..(n + 1) : to[i] = StepWith(workflow, to[i].id)
    BY <1>3, <1>5, <1>6 DEF Walked, s
  <1>9. \A i \in 1..n : [from |-> to[i].id, to |-> to[i + 1].id] \in Edges(workflow)
    <2>1. ASSUME NEW i \in 1..n, i # n
          PROVE  [from |-> to[i].id, to |-> to[i + 1].id] \in Edges(workflow)
      <3>1. i \in 1..(n - 1) /\ i + 1 \in 1..n
        BY <1>2, <2>1
      <3> QED
        BY <1>5, <3>1 DEF Walked
    <2>2. n > 0 => [from |-> to[n].id, to |-> to[n + 1].id] \in Edges(workflow)
      <3>1. n > 0 => [from |-> ordered[n].id, to |-> current] \in Edges(workflow)
        BY <1>1 DEF Walked
      <3>2. n > 0 => n \in 1..n
        BY <1>2
      <3> QED
        BY <1>3, <1>5, <3>1, <3>2
    <2>3. ASSUME NEW i \in 1..n, i = n
          PROVE  [from |-> to[i].id, to |-> to[i + 1].id] \in Edges(workflow)
      <3>1. n > 0
        BY <1>2, <2>3
      <3> QED
        BY <2>2, <2>3, <3>1
    <2> QED
      BY <2>1, <2>3
  <1>10. \E r \in Roots(workflow) : workflow.steps[r].id = to[1].id
    <2>1. CASE n = 0
      BY <1>3, <1>5, <2>1 DEF Walked
    <2>2. CASE n # 0
      <3>1. 1 \in 1..n
        BY <1>2, <2>2
      <3> QED
        BY <1>5, <2>2, <3>1 DEF Walked
    <2> QED
      BY <2>1, <2>2
  <1>11. IF current' = Missing THEN Targets(workflow, to[n + 1].id) = {}
         ELSE [from |-> to[n + 1].id, to |-> current'] \in Edges(workflow)
    <2>1. CASE Targets(workflow, current) = {}
      BY <1>1, <1>3, <1>5, <2>1
    <2>2. CASE Targets(workflow, current) # {}
      <3>1. current' \in Targets(workflow, current)
        BY <1>1, <2>2
      <3> QED
        BY <1>3, <1>5, <3>1, TheTarget
    <2> QED
      BY <2>1, <2>2
  <1>12. n + 1 > 0 /\ n + 1 # 0 /\ (n + 1) - 1 = n /\ Orderable(workflow)
    BY <1>2 DEF Walked
  <1> HIDE DEF n
  <1> QED
    BY <1>1, <1>5, <1>7, <1>8, <1>9, <1>10, <1>11, <1>12 DEF Walked
-----------------------------------------------------------------------------
(* Accepted workflows.                                                     *)

\* What is closed under the walk holds all the steps.
LEMMA AcceptedWhole ==
    ASSUME workflow \in Drafts, Valid(workflow), Walked, current = Missing
    PROVE  Len(ordered) > 0 /\ Len(ordered) = Len(workflow.steps)
  <1> DEFINE n == Len(ordered)
             ids == {ordered[i].id : i \in 1..n}
             p == [i \in 1..n |-> ordered[i].id]
  <1>1. n \in Nat /\ n # 0
    <2>1. Beginnings(workflow) \subseteq StepIds
      BY Drafted
    <2>2. n = 0 => Missing \in Beginnings(workflow)
      BY DEF Walked, Beginnings
    <2> QED
      BY <2>1, <2>2, WalkedSteps, MissingAssumption
  <1>2. Beginnings(workflow) \subseteq ids
    <2>1. PICK r \in Roots(workflow) : workflow.steps[r].id = ordered[1].id
      BY <1>1 DEF Walked
    <2>2. Roots(workflow) = {r}
      <3>1. IsFiniteSet(Roots(workflow)) /\ Cardinality(Roots(workflow)) = 1
        <4>1. Roots(workflow) \subseteq 1..Len(workflow.steps)
          BY Drafted DEF Roots
        <4>2. IsFiniteSet(1..Len(workflow.steps))
          <5>1. Len(workflow.steps) \in Nat
            BY Drafted
          <5> QED
            BY <5>1, FS_Interval
        <4> QED
          BY <4>1, <4>2, FS_Subset DEF Valid, LinearPath, Ends
      <3>2. PICK x : Roots(workflow) = {x}
        BY <3>1, FS_Singleton
      <3> QED
        BY <2>1, <3>2
    <2>3. 1 \in 1..n
      BY <1>1
    <2> QED
      BY <2>1, <2>2, <2>3 DEF Beginnings
  <1>3. ASSUME NEW i \in 1..n, NEW t \in Targets(workflow, ordered[i].id) PROVE t \in ids
    <2>1. CASE i = n
      BY <1>1, <1>3, <2>1 DEF Walked
    <2>2. CASE i # n
      <3> DEFINE d == [from |-> ordered[i].id, to |-> ordered[i + 1].id]
                 e == [from |-> ordered[i].id, to |-> t]
      <3>1. i \in 1..(n - 1) /\ i + 1 \in 1..n
        BY <1>1, <2>2
      <3>2. d \in Edges(workflow) /\ e \in Edges(workflow)
        BY <1>3, <3>1, TheTarget DEF Walked
      <3>3. d = e
        <4>1. d.from = e.from
          OBVIOUS
        <4> HIDE DEF d, e
        <4> QED
          BY <3>2, <4>1, OneConnection, WalkedSteps
      <3>4. t = ordered[i + 1].id
        BY <3>3
      <3> QED
        BY <3>1, <3>4
    <2> QED
      BY <2>1, <2>2
  <1>4. Ids(workflow) \subseteq ids
    <2>1. Followed(workflow) = Ids(workflow)
      BY DEF Valid, LinearPath
    <2>2. \A id \in ids : Targets(workflow, id) \subseteq ids
      BY <1>3
    <2> HIDE DEF ids
    <2> QED
      BY <1>2, <2>1, <2>2, FollowedWithin
  <1>5. p \in [1..n -> Ids(workflow)]
    BY WalkedSteps
  <1>6. \A i, j \in 1..n : p[i] = p[j] => i = j
    BY DEF Walked
  <1>7. \A id \in Ids(workflow) : \E i \in 1..n : p[i] = id
    BY <1>4
  <1>8. \A i, j \in 1..Len(workflow.steps) : workflow.steps[i].id = workflow.steps[j].id => i = j
    BY Drafted DEF Valid, StepsOK, IsInjective
  <1> HIDE DEF p
  <1>9. n <= Len(workflow.steps) /\ Len(workflow.steps) <= n
    BY <1>1, <1>5, <1>6, <1>7, <1>8, NoMorePlaces, NoFewerPlaces
  <1> QED
    BY <1>1, <1>9, Drafted

LEMMA AcceptedComplete ==
    ASSUME workflow \in Drafts, Valid(workflow), Walked, current = Missing
    PROVE  Complete(workflow)
  <1> DEFINE n == Len(ordered)
  <1>1. n \in Nat /\ n # 0 /\ n = Len(workflow.steps) /\ 1 \in 1..n /\ n \in 1..n
    BY AcceptedWhole, WalkedSteps
  <1>2. \A i, j \in 1..Len(workflow.steps) : workflow.steps[i].id = workflow.steps[j].id => i = j
    BY Drafted DEF Valid, StepsOK, IsInjective
  <1>3. ordered[1].kind = "trigger"
    <2>1. PICK r \in Roots(workflow) : workflow.steps[r].id = ordered[1].id
      BY <1>1 DEF Walked
    <2>2. PICK k \in 1..Len(workflow.steps) : ordered[1] = workflow.steps[k]
      BY <1>1, WalkedSteps, Drafted
    <2>3. r = k
      BY <1>2, <2>1, <2>2, Drafted DEF Roots
    <2> QED
      BY <2>1, <2>2, <2>3 DEF Valid, LinearPath, Ends
  <1>4. ordered[n].kind = "action"
    <2>1. PICK k \in 1..Len(workflow.steps) : ordered[n] = workflow.steps[k]
      BY <1>1, WalkedSteps, Drafted
    <2>2. Targets(workflow, ordered[n].id) = {}
      BY <1>1 DEF Walked
    <2>3. k \in Sinks(workflow)
      <3>1. \A c \in Edges(workflow) : c.from # ordered[n].id
        BY <2>2 DEF Targets
      <3>2. k \in DOMAIN workflow.steps
        BY <2>1, Drafted
      <3> QED
        BY <2>1, <3>1, <3>2 DEF Sinks
    <2> QED
      BY <2>1, <2>3 DEF Valid, LinearPath, Ends
  <1> QED
    BY <1>1, <1>3, <1>4 DEF Complete, Last

LEMMA AcceptedRunnable ==
    ASSUME workflow \in Drafts, Valid(workflow), Walked, Complete(workflow), ordered # <<>>
    PROVE  Runnable /\ \A s \in Range(ordered) : s.kind = "condition" => CanMatch(s)
  <1>1. \A s \in Range(ordered) :
          /\ s.kind = KindOf[s.action] /\ ParamOK(s)
          /\ s.action \in {"price_moves", "time_check", "volume_above", "sell", "send_message"}
          /\ s.param \in Params
    <2>1. Range(ordered) \subseteq Range(workflow.steps)
      BY WalkedSteps
    <2>2. \A s \in Range(workflow.steps) : s.kind = KindOf[s.action] /\ ParamOK(s)
      BY DEF Valid, StepsOK
    <2>3. Range(workflow.steps) \subseteq Steps(StepIds)
      BY Drafted
    <2> QED
      BY <2>1, <2>2, <2>3 DEF Steps, KindOf
  <1>2. ordered[1] \in Range(ordered)
    BY WalkedSteps, OfSequence DEF Walked
  <1>3. /\ KindOf["price_moves"] = "trigger" /\ KindOf["time_check"] = "trigger"
        /\ KindOf["volume_above"] = "condition"
        /\ KindOf["sell"] = "action" /\ KindOf["send_message"] = "action"
    BY DEF KindOf
  <1>4. ASSUME NEW s \in Range(ordered)
        PROVE  /\ s.kind \in {"trigger", "action"} => Readable(s)
               /\ s.kind = "condition" => CanMatch(s)
    <2>1. s.kind = KindOf[s.action] /\ ParamOK(s)
      BY <1>1
    <2>2. CASE s.action = "price_moves"
      BY <1>3, <2>1, <2>2 DEF Readable
    <2>3. CASE s.action = "time_check"
      <3>1. s.param \in Intervals
        BY <2>1, <2>3 DEF ParamOK
      <3>2. DOMAIN ScheduleSeconds = Intervals
        BY DEF ScheduleSeconds
      <3> QED
        BY <1>3, <2>1, <2>3, <3>1, <3>2 DEF Readable
    <2>4. CASE s.action = "volume_above"
      <3>1. s.param = "positive"
        BY <2>1, <2>4 DEF ParamOK
      <3> QED
        BY <1>3, <2>1, <2>4, <3>1 DEF CanMatch, Number
    <2>5. CASE s.action = "sell"
      <3>1. s.param = "positive"
        BY <2>1, <2>5 DEF ParamOK
      <3> QED
        BY <1>3, <2>1, <2>5, <3>1 DEF Readable, Number
    <2>6. CASE s.action = "send_message"
      BY <1>3, <2>1, <2>6 DEF Readable
    <2> QED
      BY <1>1, <2>2, <2>3, <2>4, <2>5, <2>6
  <1> QED
    BY <1>1, <1>2, <1>4 DEF Runnable, Complete

-----------------------------------------------------------------------------
(* The invariant is inductive.                                             *)

LEMMA StartInv ==
    ASSUME WorkflowInv, StartOrder
    PROVE  WorkflowInv'
  <1>1. /\ stage = "stored" /\ ordered = <<>> /\ workflow \in Drafts
        /\ UNCHANGED <<workflow, accepted, ordered>>
    BY DEF StartOrder, WorkflowInv
  <1>2. CASE Orderable(workflow)
    <2>1. PICK i \in First(workflow) : current' = workflow.steps[i].id
      BY <1>2 DEF StartOrder
    <2>2. stage' = "walking"
      BY <1>2 DEF StartOrder
    <2>3. <<>> \in Seq(Range(workflow.steps)) /\ Len(<<>>) = 0
      OBVIOUS
    <2>4. Walked'
      BY <1>1, <1>2, <2>1, <2>3 DEF Walked, First
    <2> QED
      BY <1>1, <2>2, <2>4 DEF WorkflowInv
  <1>3. CASE ~Orderable(workflow)
    <2>1. stage' = "refused"
      BY <1>3 DEF StartOrder
    <2>2. ~accepted
      BY <1>3 DEF WorkflowInv, Valid, LinearPath, Ends, Orderable, First
    <2> QED
      BY <1>1, <2>1, <2>2 DEF WorkflowInv
  <1> QED
    BY <1>2, <1>3

LEMMA FollowInv ==
    ASSUME WorkflowInv, FollowStep
    PROVE  WorkflowInv'
  <1>1. /\ stage = "walking" /\ Walked /\ workflow \in Drafts /\ current # Missing
        /\ UNCHANGED <<workflow, accepted>>
    BY DEF FollowStep, WorkflowInv
  <1>2. CASE current \in Ids(workflow)
    <2>1. Walked' /\ stage' = stage
      BY <1>1, <1>2, FollowWalked DEF FollowStep
    <2> QED
      BY <1>1, <2>1 DEF WorkflowInv
  <1>3. CASE current \notin Ids(workflow)
    <2>1. stage' = "refused"
      BY <1>3 DEF FollowStep
    <2>2. ASSUME Valid(workflow) PROVE FALSE
      <3>1. CASE Len(ordered) = 0
        <4>1. current \in Beginnings(workflow)
          BY <1>1, <3>1 DEF Walked, Beginnings
        <4> QED
          BY <1>1, <1>3, <4>1, Drafted
      <3>2. CASE Len(ordered) # 0
        <4> DEFINE e == [from |-> ordered[Len(ordered)].id, to |-> current]
        <4>1. Len(ordered) > 0
          BY <1>1, <3>2, WalkedSteps
        <4>2. e \in Edges(workflow)
          BY <1>1, <4>1 DEF Walked
        <4>3. e.to \in Ids(workflow)
          <5> HIDE DEF e
          <5> QED
            BY <2>2, <4>2 DEF Valid, EdgesOK, Joined
        <4> QED
          BY <1>3, <4>3
      <3> QED
        BY <3>1, <3>2
    <2> QED
      BY <1>1, <2>1, <2>2 DEF WorkflowInv
  <1> QED
    BY <1>2, <1>3

LEMMA EndInv ==
    ASSUME WorkflowInv, EndOrder
    PROVE  WorkflowInv'
  <1>1. /\ stage = "walking" /\ Walked /\ workflow \in Drafts /\ current = Missing
        /\ UNCHANGED <<workflow, accepted, current, ordered>>
        /\ stage' = IF Complete(workflow) THEN "ordered" ELSE "refused"
    BY DEF EndOrder, WorkflowInv
  <1>2. accepted => Complete(workflow)
    BY <1>1, AcceptedComplete DEF WorkflowInv
  <1>3. Walked'
    BY <1>1 DEF Walked
  <1> QED
    BY <1>1, <1>2, <1>3 DEF WorkflowInv, Complete

LEMMA RunInv ==
    ASSUME WorkflowInv, Run
    PROVE  WorkflowInv'
  <1> DEFINE matches == \A s \in Range(ordered) : s.kind = "condition" => CanMatch(s)
  <1>1. /\ stage = "ordered" /\ Walked /\ workflow \in Drafts /\ Complete(workflow)
        /\ UNCHANGED <<workflow, accepted, current, ordered>>
        /\ stage' = IF ~Runnable THEN "refused" ELSE IF matches THEN "ran" ELSE "skipped"
    BY DEF Run, WorkflowInv
  <1>2. accepted => Runnable /\ matches
    <2>1. ASSUME accepted PROVE Valid(workflow) /\ ordered # <<>>
      <3>1. Valid(workflow)
        BY <2>1 DEF WorkflowInv
      <3>2. workflow.steps # <<>> /\ Len(ordered) = Len(workflow.steps)
        BY <1>1, <3>1 DEF Valid, StepsOK, Complete
      <3>3. Len(workflow.steps) # 0
        BY <1>1, <3>2, Drafted
      <3> QED
        BY <3>1, <3>2, <3>3
    <2> QED
      BY <1>1, <2>1, AcceptedRunnable
  <1> HIDE DEF matches
  <1>3. Walked' /\ Complete(workflow)'
    BY <1>1 DEF Walked, Complete
  <1> QED
    BY <1>1, <1>2, <1>3 DEF WorkflowInv

LEMMA WorkflowInductive ==
    ASSUME WorkflowInv, [WorkflowNext]_workflowVars
    PROVE  WorkflowInv'
  <1>1. CASE Receive
    BY <1>1 DEF Receive, WorkflowInv
  <1>2. CASE Validate
    BY <1>2 DEF Validate, WorkflowInv
  <1>3. CASE ExecuteWorkflow
    BY <1>3, StartInv, FollowInv, EndInv, RunInv DEF ExecuteWorkflow
  <1>4. CASE UNCHANGED workflowVars
    <2>1. Walked' = Walked /\ Complete(workflow)' = Complete(workflow)
      BY <1>4 DEF workflowVars, Walked, Complete
    <2> QED
      BY <1>4, <2>1 DEF workflowVars, WorkflowInv
  <1> QED
    BY <1>1, <1>2, <1>3, <1>4 DEF WorkflowNext

LEMMA WorkflowAlways == WorkflowSpec => []WorkflowInv
  <1>1. WorkflowInit => WorkflowInv
    BY DEF WorkflowInit, WorkflowInv
  <1> QED
    BY <1>1, WorkflowInductive, PTL DEF WorkflowSpec

(* For workflows of any size: the executor refuses or skips none that the  *)
(* service has accepted (validate_workflow against ordered_workflow_steps, *)
(* evaluate_trigger and execute_action).                                   *)
THEOREM AcceptedCorrect == WorkflowSpec => []AcceptedRuns
  <1>1. WorkflowInv => AcceptedRuns
    BY DEF WorkflowInv, AcceptedRuns
  <1> QED
    BY <1>1, WorkflowAlways, PTL

(* However a stored workflow is connected, the loop over its connections   *)
(* makes no more rounds than the workflow has steps                        *)
(* (ordered_workflow_steps).                                               *)
LoopIsBounded == Len(ordered) <= Len(workflow.steps)

THEOREM LoopBounded == WorkflowSpec => [](stage = "walking" => LoopIsBounded)
  <1>1. ASSUME WorkflowInv, stage = "walking"
        PROVE  LoopIsBounded
    <2> DEFINE p == [i \in 1..Len(ordered) |-> ordered[i].id]
    <2>1. workflow \in Drafts /\ Walked
      BY <1>1 DEF WorkflowInv
    <2>2. Len(ordered) \in Nat /\ p \in [1..Len(ordered) -> Ids(workflow)]
      BY <2>1, WalkedSteps
    <2>3. \A i, j \in 1..Len(ordered) : p[i] = p[j] => i = j
      BY <2>1 DEF Walked
    <2> HIDE DEF p
    <2> QED
      BY <2>1, <2>2, <2>3, NoMorePlaces DEF LoopIsBounded
  <1>2. WorkflowInv => (stage = "walking" => LoopIsBounded)
    BY <1>1
  <1> QED
    BY <1>2, WorkflowAlways, PTL

(* For workflows of any size, accepted or not: what the executor runs has  *)
(* each step once, along the connections; and of an accepted one all that  *)
(* comes behind an action are actions (validate_connections,               *)
(* ordered_workflow_steps).                                                *)
THEOREM OrderCorrect == WorkflowSpec => []OrderIsSound
  <1>1. ASSUME WorkflowInv, stage \in {"ordered", "ran"}
        PROVE  OrderIsSound
    <2> DEFINE n == Len(ordered)
    <2>1. workflow \in Drafts /\ Walked /\ Complete(workflow)
      BY <1>1 DEF WorkflowInv
    <2>2. DOMAIN ordered = 1..n /\ n \in Nat
      BY <2>1, WalkedSteps
    <2>3. IsInjective(ordered)
      BY <2>1, <2>2 DEF IsInjective, Walked
    <2>4. ASSUME NEW i \in 1..(n - 1)
          PROVE  /\ [from |-> ordered[i].id, to |-> ordered[i + 1].id] \in Edges(workflow)
                 /\ accepted /\ ordered[i].kind = "action" => ordered[i + 1].kind = "action"
      <3> DEFINE e == [from |-> ordered[i].id, to |-> ordered[i + 1].id]
      <3>1. e \in Edges(workflow) /\ e.from = ordered[i].id /\ e.to = ordered[i + 1].id
        BY <2>1 DEF Walked
      <3>2. i \in 1..n /\ i + 1 \in 1..n
        BY <2>2
      <3>3. /\ ordered[i] = StepWith(workflow, e.from)
            /\ ordered[i + 1] = StepWith(workflow, e.to)
        BY <2>1, <3>1, <3>2 DEF Walked
      <3>4. ordered[i + 1].kind \in {"trigger", "condition", "action"}
        BY <2>1, <3>2, WalkedSteps, Drafted DEF Steps
      <3> HIDE DEF e
      <3>5. accepted => KindOrder(ordered[i].kind) <= KindOrder(ordered[i + 1].kind)
        BY <1>1, <3>1, <3>3 DEF WorkflowInv, Valid, EdgesOK
      <3>6. /\ KindOrder("trigger") = 1 /\ KindOrder("condition") = 2 /\ KindOrder("action") = 3
        BY DEF KindOrder
      <3>7. accepted /\ ordered[i].kind = "action" => ordered[i + 1].kind = "action"
        BY <3>4, <3>5, <3>6
      <3> QED
        BY <3>1, <3>7 DEF e
    <2> QED
      BY <2>1, <2>3, <2>4 DEF OrderIsSound, Complete
  <1>2. WorkflowInv => OrderIsSound
    BY <1>1 DEF OrderIsSound
  <1> QED
    BY <1>2, WorkflowAlways, PTL

-----------------------------------------------------------------------------
(* Cycles.                                                                 *)

LEMMA FiniteIds ==
    ASSUME NEW w \in Drafts
    PROVE  IsFiniteSet(Ids(w))
  <1> DEFINE f == [k \in 1..Len(w.steps) |-> w.steps[k].id]
  <1>1. Len(w.steps) \in Nat /\ Ids(w) = {w.steps[k].id : k \in 1..Len(w.steps)}
    BY Drafted
  <1>2. f \in Surjection(1..Len(w.steps), Ids(w))
    BY <1>1 DEF Surjection
  <1> HIDE DEF f
  <1> QED
    BY <1>1, <1>2, FS_Interval, FS_Surjection

\* The steps of a cycle have their connections from one another, so that no
\* path leads into it.
LEMMA PathHasNoCycle ==
    ASSUME NEW w \in Drafts, EdgesOK(w), LinearPath(w)
    PROVE  ~Cyclic(w)
  <1> SUFFICES ASSUME NEW S \in SUBSET Ids(w), S # {},
                      \A id \in S : Targets(w, id) \cap S # {}
               PROVE  FALSE
    BY DEF Cyclic
  <1> DEFINE next == [id \in S |-> CHOOSE t \in S : t \in Targets(w, id)]
             rest == Ids(w) \ S
  <1>1. \A id \in S : next[id] \in S /\ next[id] \in Targets(w, id)
    OBVIOUS
  <1>2. next \in [S -> S]
    BY <1>1
  <1> HIDE DEF next
  <1>3. ASSUME NEW a, NEW b, NEW t \in Targets(w, a) \cap Targets(w, b) PROVE a = b
    <2> DEFINE c == [from |-> a, to |-> t]
               d == [from |-> b, to |-> t]
    <2>1. c \in Edges(w) /\ d \in Edges(w) /\ c.to = d.to
      BY TheTarget
    <2>2. c.from = a /\ d.from = b
      OBVIOUS
    <2> HIDE DEF c, d
    <2> QED
      BY <2>1, <2>2, OneConnection DEF LinearPath
  <1>4. next \in Surjection(S, S)
    <2>1. IsFiniteSet(S)
      BY FiniteIds, FS_Subset
    <2>2. next \in Injection(S, S)
      BY <1>1, <1>2, <1>3 DEF Injection, IsInjective
    <2> QED
      BY <2>1, <2>2, FS_Injection
  <1>5. \A t \in S : \E id \in S : t \in Targets(w, id)
    BY <1>1, <1>4 DEF Surjection
  <1>6. ASSUME NEW id \in rest, NEW t \in Targets(w, id) PROVE t \in rest
    <2>1. t \in Ids(w)
      BY DEF Targets, EdgesOK, Joined
    <2> QED
      BY <1>3, <1>5, <1>6, <2>1
  <1>7. Beginnings(w) \subseteq rest
    <2>1. ASSUME NEW r \in Roots(w) PROVE w.steps[r].id \notin S
      BY <1>5 DEF Roots, Targets
    <2> QED
      BY <2>1, Drafted DEF Beginnings
  <1>8. Followed(w) \subseteq rest
    <2>1. \A id \in rest : Targets(w, id) \subseteq rest
      BY <1>6
    <2> HIDE DEF rest
    <2> QED
      BY <1>7, <2>1, FollowedWithin
  <1> QED
    BY <1>8 DEF LinearPath

(* No workflow that was accepted has a cycle, by validate_linear_path      *)
(* alone, whatever has_cycle has found (validate_connections).             *)
THEOREM AcceptedAcyclic == WorkflowSpec => [](accepted => ~Cyclic(workflow))
  <1>1. WorkflowInv => (accepted => ~Cyclic(workflow))
    BY PathHasNoCycle DEF WorkflowInv, Valid
  <1> QED
    BY <1>1, WorkflowAlways, PTL
-----------------------------------------------------------------------------
(* The search for cycles: its recursion ends, and what it finds.           *)

Chosen(s) == CHOOSE i \in s.todo : TRUE
Rest(s) == [s EXCEPT !.todo = @ \ {Chosen(s)}]

\* One round of the innermost loop, by a function f for the rest of the search.
After(w, f, s) ==
    CASE Chosen(s) \in s.visiting -> [Rest(s) EXCEPT !.found = TRUE]
      [] Chosen(s) \in s.visited \ s.visiting -> Rest(s)
      [] OTHER -> Left(Rest(s), f[Entered(w, s, Chosen(s))], Chosen(s))

Ended(s) == s.found \/ s.todo = {}

Continued(w, f, s) == IF Ended(s) THEN s ELSE f[After(w, f, s)]

Searching(w, f) == f = [s \in Searches(w) |-> Continued(w, f, s)]

\* Each step that is entered leaves fewer to enter, each round fewer to visit.
ToGo(w, s) ==
    IF s.found THEN 0
    ELSE Cardinality(Ids(w) \ s.visiting) * (Cardinality(Ids(w)) + 1) + Cardinality(s.todo)

\* A search that finds nothing is back where it began.
Back(s, r) == ~r.found => ~s.found /\ r.visiting = s.visiting

LEMMA VisitSearches == \A w : Visit(w) = CHOOSE f : Searching(w, f)
  BY DEF Visit, Searching, Continued, Ended, After, Chosen, Rest

LEMMA SearchFields ==
    ASSUME NEW w, NEW s \in Searches(w)
    PROVE  /\ s.found \in BOOLEAN /\ s.visiting \subseteq Ids(w) /\ s.visited \subseteq Ids(w)
           /\ s.todo \subseteq Ids(w)
           /\ ~Ended(s) => Chosen(s) \in s.todo /\ Chosen(s) \in Ids(w)
           /\ Rest(s) \in Searches(w) /\ (Rest(s).found <=> s.found) /\ Rest(s).visiting = s.visiting
           /\ Rest(s).visited = s.visited /\ Rest(s).todo = s.todo \ {Chosen(s)}
  BY DEF Searches, Ended, Chosen, Rest

LEMMA EnteredFields ==
    ASSUME NEW w \in Drafts, Joined(w), NEW s \in Searches(w), NEW id \in Ids(w)
    PROVE  /\ Entered(w, s, id) \in Searches(w) /\ (Entered(w, s, id).found <=> s.found)
           /\ Entered(w, s, id).visiting = s.visiting \cup {id}
           /\ Entered(w, s, id).visited = s.visited
           /\ Entered(w, s, id).todo = Targets(w, id) /\ Targets(w, id) \subseteq Ids(w)
  <1>1. Targets(w, id) \subseteq Ids(w)
    BY DEF Targets, Joined
  <1> QED
    BY <1>1 DEF Searches, Entered

LEMMA FewerToEnter ==
    ASSUME NEW c \in Nat, NEW m \in Nat, NEW d \in Nat, NEW e \in Nat, c # 0, d <= m
    PROVE  (c - 1) * (m + 1) + d < c * (m + 1) + e
  <1>1. (c - 1) * (m + 1) = c * (m + 1) - (m + 1)
    OBVIOUS
  <1>2. c * (m + 1) \in Int /\ c * (m + 1) - (m + 1) + d < c * (m + 1) + e
    <2>1. c * (m + 1) \in Int
      OBVIOUS
    <2> DEFINE x == c * (m + 1)
    <2> HIDE DEF x
    <2> QED
      BY <2>1
  <1> QED
    BY <1>1, <1>2

LEMMA Numbers ==
    ASSUME NEW w \in Drafts, NEW s \in Searches(w)
    PROVE  /\ IsFiniteSet(Ids(w)) /\ Cardinality(Ids(w)) \in Nat
           /\ IsFiniteSet(s.todo) /\ Cardinality(s.todo) \in Nat
           /\ Cardinality(s.todo) <= Cardinality(Ids(w))
           /\ IsFiniteSet(Ids(w) \ s.visiting) /\ Cardinality(Ids(w) \ s.visiting) \in Nat
           /\ ToGo(w, s) \in Nat
  <1>1. IsFiniteSet(Ids(w))
    BY FiniteIds
  <1>2. s.todo \subseteq Ids(w) /\ Ids(w) \ s.visiting \subseteq Ids(w)
    BY SearchFields
  <1>3. /\ IsFiniteSet(s.todo) /\ Cardinality(s.todo) <= Cardinality(Ids(w))
        /\ IsFiniteSet(Ids(w) \ s.visiting)
    BY <1>1, <1>2, FS_Subset
  <1>4. /\ Cardinality(Ids(w)) \in Nat /\ Cardinality(s.todo) \in Nat
        /\ Cardinality(Ids(w) \ s.visiting) \in Nat
    BY <1>1, <1>3, FS_CardinalityType
  <1> QED
    BY <1>1, <1>3, <1>4 DEF ToGo

LEMMA ToGoFalls ==
    ASSUME NEW w \in Drafts, Joined(w), NEW s \in Searches(w), ~Ended(s)
    PROVE  /\ Chosen(s) \notin s.visiting => ToGo(w, Entered(w, s, Chosen(s))) < ToGo(w, s)
           /\ \A r \in Searches(w) :
                r.found \/ (r.visiting = s.visiting /\ r.todo = s.todo \ {Chosen(s)})
                  => ToGo(w, r) < ToGo(w, s)
  <1> DEFINE id == Chosen(s)
             e == Entered(w, s, id)
             m == Cardinality(Ids(w))
             c == Cardinality(Ids(w) \ s.visiting)
             d == Cardinality(s.todo)
  <1>1. id \in s.todo /\ id \in Ids(w) /\ ~s.found
    BY SearchFields DEF Ended
  <1>2. /\ m \in Nat /\ c \in Nat /\ d \in Nat
        /\ IsFiniteSet(s.todo) /\ IsFiniteSet(Ids(w) \ s.visiting)
    BY Numbers
  <1>3. ToGo(w, s) = c * (m + 1) + d
    BY <1>1 DEF ToGo
  <1>4. Cardinality(s.todo \ {id}) = d - 1 /\ d # 0
    <2>1. Cardinality(s.todo \ {id}) = d - 1 /\ Cardinality(s.todo \ {id}) \in Nat
      BY <1>1, <1>2, FS_RemoveElement, FS_CardinalityType
    <2> QED
      BY <1>2, <2>1
  <1>5. ASSUME id \notin s.visiting PROVE ToGo(w, e) < ToGo(w, s)
    <2>1. e \in Searches(w) /\ ~e.found /\ e.visiting = s.visiting \cup {id}
      BY <1>1, EnteredFields
    <2>2. Ids(w) \ e.visiting = (Ids(w) \ s.visiting) \ {id} /\ id \in Ids(w) \ s.visiting
      BY <1>1, <1>5, <2>1
    <2>3. Cardinality(Ids(w) \ e.visiting) = c - 1 /\ Cardinality(Ids(w) \ e.visiting) \in Nat
      <3> DEFINE S == Ids(w) \ s.visiting
      <3>1. Cardinality(S \ {id}) = Cardinality(S) - 1 /\ Cardinality(S \ {id}) \in Nat
        <4>1. IsFiniteSet(S) /\ id \in S
          BY <1>2, <2>2
        <4> HIDE DEF S, id
        <4> QED
          BY <4>1, FS_RemoveElement, FS_CardinalityType
      <3> HIDE DEF e
      <3> QED
        BY <2>2, <3>1
    <2>4. ToGo(w, e) = (c - 1) * (m + 1) + Cardinality(e.todo)
      BY <2>1, <2>3 DEF ToGo
    <2>5. Cardinality(e.todo) \in Nat /\ Cardinality(e.todo) <= m
      BY <2>1, Numbers
    <2>6. c # 0
      BY <1>2, <2>3
    <2> HIDE DEF c, m, d, e
    <2> QED
      BY <1>2, <1>3, <2>4, <2>5, <2>6, FewerToEnter
  <1>6. ASSUME NEW r \in Searches(w),
               r.found \/ (r.visiting = s.visiting /\ r.todo = s.todo \ {id})
        PROVE  ToGo(w, r) < ToGo(w, s)
    <2>1. CASE r.found
      <3>1. ToGo(w, r) = 0 /\ ToGo(w, s) \in Nat /\ c * (m + 1) \in Nat
        BY <1>2, <2>1, Numbers DEF ToGo
      <3> HIDE DEF c, m, d
      <3> QED
        BY <1>2, <1>3, <1>4, <3>1
    <2>2. CASE ~r.found
      <3>1. c * (m + 1) \in Nat
        <4> HIDE DEF c, m
        <4> QED
          BY <1>2
      <3>2. /\ ToGo(w, r) = Cardinality(Ids(w) \ r.visiting) * (m + 1) + Cardinality(r.todo)
            /\ Ids(w) \ r.visiting = Ids(w) \ s.visiting
            /\ Cardinality(r.todo) = d - 1
        BY <1>4, <1>6, <2>2 DEF ToGo
      <3>3. ToGo(w, r) = c * (m + 1) + (d - 1)
        BY <3>2
      <3> HIDE DEF c, m, d
      <3> QED
        BY <1>2, <1>3, <3>1, <3>3
    <2> QED
      BY <2>1, <2>2
  <1> QED
    BY <1>5, <1>6

\* A round is nearer to the end, by any f that is back from what it enters.
LEMMA RoundFalls ==
    ASSUME NEW w \in Drafts, Joined(w), NEW f, NEW s \in Searches(w), ~Ended(s),
           Chosen(s) \notin s.visiting \cup s.visited =>
                f[Entered(w, s, Chosen(s))] \in Searches(w)
    PROVE  /\ After(w, f, s) \in Searches(w)
           /\ (Chosen(s) \notin s.visiting \cup s.visited =>
                  LET e == Entered(w, s, Chosen(s)) IN Back(e, f[e]))
                => /\ ToGo(w, After(w, f, s)) < ToGo(w, s)
                   /\ Back(s, After(w, f, s))
  <1> DEFINE id == Chosen(s)
             e == Entered(w, s, id)
             a == After(w, f, s)
  <1>1. /\ id \in s.todo /\ id \in Ids(w) /\ ~s.found
        /\ Rest(s) \in Searches(w) /\ ~Rest(s).found /\ Rest(s).visiting = s.visiting
        /\ Rest(s).todo = s.todo \ {id}
    BY SearchFields DEF Ended
  <1>2. e \in Searches(w) /\ e.visiting = s.visiting \cup {id} /\ ~e.found
    BY <1>1, EnteredFields
  <1>3. CASE id \in s.visiting
    <2>1. a = [Rest(s) EXCEPT !.found = TRUE]
      BY <1>3 DEF After
    <2>2. a \in Searches(w) /\ a.found
      BY <1>1, <2>1 DEF Searches
    <2>3. ToGo(w, a) < ToGo(w, s)
      <3> HIDE DEF a
      <3> QED
        BY <2>2, ToGoFalls
    <2>4. Back(s, a)
      <3> HIDE DEF a
      <3> QED
        BY <2>2 DEF Back
    <2> QED
      BY <2>2, <2>3, <2>4
  <1>4. CASE id \in s.visited \ s.visiting
    <2>1. a = Rest(s)
      BY <1>4 DEF After
    <2> QED
      BY <1>1, <2>1, ToGoFalls DEF Back
  <1>5. CASE id \notin s.visiting \cup s.visited
    <2>1. a = Left(Rest(s), f[e], id) /\ f[e] \in Searches(w)
      BY <1>5 DEF After
    <2>2. /\ a \in Searches(w) /\ (a.found <=> f[e].found) /\ a.visiting = f[e].visiting \ {id}
          /\ a.todo = s.todo \ {id}
      <3> DEFINE b == f[e]
                 r == Rest(s)
      <3>1. r \in Searches(w) /\ b \in Searches(w) /\ r.todo = s.todo \ {id} /\ a = Left(r, b, id)
        BY <1>1, <1>2, <2>1
      <3>0. id \in Ids(w)
        BY <1>1
      <3> HIDE DEF a, b, r, id, e
      <3>2. /\ a \in Searches(w) /\ (a.found <=> b.found) /\ a.visiting = b.visiting \ {id}
            /\ a.todo = s.todo \ {id}
        BY <3>0, <3>1 DEF Searches, Left, Explored
      <3> QED
        BY <3>2 DEF b
    <2>3. ASSUME Back(e, f[e]) PROVE a.found \/ a.visiting = s.visiting
      BY <1>2, <1>5, <2>2, <2>3 DEF Back
    <2>4. f[e].found \in BOOLEAN
      BY <2>1 DEF Searches
    <2>5. ASSUME Back(e, f[e]) PROVE ToGo(w, a) < ToGo(w, s) /\ Back(s, a)
      <3> HIDE DEF a, e
      <3> QED
        BY <1>1, <2>2, <2>3, <2>5, ToGoFalls DEF Back
    <2> QED
      BY <1>5, <2>2, <2>5
  <1> QED
    BY <1>3, <1>4, <1>5

LEMMA ToGoBounded ==
    ASSUME NEW w \in Drafts
    PROVE  \E n \in Nat : \A s \in Searches(w) : ToGo(w, s) < n
  <1> DEFINE m == Cardinality(Ids(w))
  <1>1. m \in Nat
    BY FiniteIds, FS_CardinalityType
  <1>2. ASSUME NEW s \in Searches(w) PROVE ToGo(w, s) < m * (m + 1) + m + 1
    <2> DEFINE c == Cardinality(Ids(w) \ s.visiting)
               d == Cardinality(s.todo)
    <2>1. c \in Nat /\ d \in Nat /\ c <= m /\ d <= m
      BY Numbers, FiniteIds, FS_Subset
    <2>2. ToGo(w, s) = 0 \/ ToGo(w, s) = c * (m + 1) + d
      BY DEF ToGo
    <2> HIDE DEF c, d, m
    <2>3. (m - c) * (m + 1) = m * (m + 1) - c * (m + 1)
      BY <1>1, <2>1
    <2>4. (m - c) * (m + 1) \in Nat /\ m * (m + 1) \in Nat /\ c * (m + 1) \in Nat
      BY <1>1, <2>1
    <2> QED
      BY <1>1, <2>1, <2>2, <2>3, <2>4
  <1>3. m * (m + 1) + m + 1 \in Nat
    <2> HIDE DEF m
    <2> QED
      BY <1>1
  <1> QED
    BY <1>2, <1>3

\* f is the search of what is nearer to its end than n.
SearchesUpTo(w, f, n) ==
    \A s \in Searches(w) : ToGo(w, s) < n => f[s] = Continued(w, f, s) /\ Back(s, f[s])

LEMMA SearchFurther ==
    ASSUME NEW w \in Drafts, Joined(w), NEW n \in Nat, NEW f \in [Searches(w) -> Searches(w)],
           SearchesUpTo(w, f, n)
    PROVE  \E g \in [Searches(w) -> Searches(w)] : SearchesUpTo(w, g, n + 1)
  <1> DEFINE g == [s \in Searches(w) |-> Continued(w, f, s)]
  <1>1. ASSUME NEW s \in Searches(w) PROVE Continued(w, f, s) \in Searches(w)
    <2>1. CASE Ended(s)
      BY <2>1 DEF Continued
    <2>2. CASE ~Ended(s)
      <3>1. Entered(w, s, Chosen(s)) \in Searches(w)
        BY <2>2, SearchFields, EnteredFields
      <3>2. After(w, f, s) \in Searches(w)
        BY <2>2, <3>1, RoundFalls
      <3> QED
        BY <2>2, <3>2 DEF Continued
    <2> QED
      BY <2>1, <2>2
  <1>2. g \in [Searches(w) -> Searches(w)]
    BY <1>1
  <1>3. \A s \in Searches(w) : g[s] = Continued(w, f, s)
    OBVIOUS
  <1> HIDE DEF g
  <1>4. \A s \in Searches(w) : ToGo(w, s) < n => g[s] = f[s]
    BY <1>3 DEF SearchesUpTo
  <1>5. ASSUME NEW s \in Searches(w), ToGo(w, s) < n + 1
        PROVE  g[s] = Continued(w, g, s) /\ Back(s, g[s])
    <2>1. CASE Ended(s)
      BY <1>3, <2>1 DEF Continued, Back
    <2>2. CASE ~Ended(s)
      <3> DEFINE id == Chosen(s)
                 e == Entered(w, s, id)
                 a == After(w, f, s)
      <3>1. e \in Searches(w) /\ f[e] \in Searches(w)
        BY <2>2, SearchFields, EnteredFields
      <3>2. ToGo(w, s) \in Nat /\ ToGo(w, e) \in Nat
        BY <3>1, Numbers
      <3>3. ASSUME id \notin s.visiting \cup s.visited PROVE g[e] = f[e] /\ Back(e, f[e])
        <4>1. ToGo(w, e) < n
          <5>1. ToGo(w, e) < ToGo(w, s)
            BY <2>2, <3>3, ToGoFalls
          <5> HIDE DEF e
          <5> QED
            BY <1>5, <3>2, <5>1
        <4> HIDE DEF e
        <4> QED
          BY <1>4, <3>1, <4>1 DEF SearchesUpTo
      <3>4. After(w, g, s) = a
        BY <3>3 DEF After
      <3>5. a \in Searches(w) /\ ToGo(w, a) < ToGo(w, s) /\ Back(s, a)
        BY <2>2, <3>1, <3>3, RoundFalls
      <3> HIDE DEF a
      <3>6. ToGo(w, a) < n
        <4>1. ToGo(w, a) \in Nat
          BY <3>5, Numbers
        <4> QED
          BY <1>5, <3>2, <3>5, <4>1
      <3>7. g[a] = f[a] /\ Back(a, f[a])
        BY <1>4, <3>5, <3>6 DEF SearchesUpTo
      <3>8. g[s] = f[a] /\ Continued(w, g, s) = g[a]
        BY <1>3, <2>2, <3>4 DEF Continued, a
      <3> QED
        BY <3>5, <3>7, <3>8 DEF Back
    <2> QED
      BY <2>1, <2>2
  <1> QED
    BY <1>2, <1>5 DEF SearchesUpTo

\* The recursion of visit ends: there is a function that it defines.
LEMMA VisitEnds ==
    ASSUME NEW w \in Drafts, Joined(w)
    PROVE  Searching(w, Visit(w))
  <1> DEFINE S == {n \in Nat : \E f \in [Searches(w) -> Searches(w)] : SearchesUpTo(w, f, n)}
  <1>1. 0 \in S
    <2>1. [s \in Searches(w) |-> s] \in [Searches(w) -> Searches(w)]
      OBVIOUS
    <2>2. ASSUME NEW s \in Searches(w) PROVE ~(ToGo(w, s) < 0)
      <3>1. ToGo(w, s) \in Nat
        BY Numbers
      <3> QED
        BY <3>1
    <2> QED
      BY <2>1, <2>2 DEF SearchesUpTo
  <1>2. \A n \in S : n + 1 \in S
    BY SearchFurther
  <1>3. S = Nat
    <2>1. S \in SUBSET Nat
      OBVIOUS
    <2> HIDE DEF S
    <2> QED
      BY <1>1, <1>2, <2>1, Counting
  <1>4. PICK n \in Nat : \A s \in Searches(w) : ToGo(w, s) < n
    BY ToGoBounded
  <1>5. PICK f \in [Searches(w) -> Searches(w)] : SearchesUpTo(w, f, n)
    BY <1>3
  <1>6. Searching(w, f)
    BY <1>4, <1>5 DEF Searching, SearchesUpTo
  <1> QED
    BY <1>6, VisitSearches

-----------------------------------------------------------------------------
(* What the search finds.                                                  *)

\* What it has finished is closed under the connections and has no cycle, what
\* it is within is a path to the steps it still has to visit.
Explorable(w, s) ==
    /\ s.visiting \cap s.visited = {}
    /\ \A v \in s.visited : Targets(w, v) \subseteq s.visited
    /\ \A S \in (SUBSET s.visited) \ {{}} : \E v \in S : Targets(w, v) \cap S = {}
    /\ s.visiting # {} => \E top \in s.visiting :
            /\ s.todo \subseteq Targets(w, top)
            /\ \A v \in s.visiting \ {top} : Targets(w, v) \cap s.visiting # {}

Right(w, s) == IF s.found THEN Cyclic(w) ELSE Explorable(w, s)

\* A search that finds nothing loses no step.
Kept(s, r) == ~r.found => s.visited \cup s.todo \subseteq r.visited \cup r.todo

\* What a search that begins with s may end in.
Outcome(w, s, r) ==
    r \in Searches(w) /\ Back(s, r) /\ Ended(r) /\ (Right(w, s) => Right(w, r) /\ Kept(s, r))

LEMMA EnteredRight ==
    ASSUME NEW w \in Drafts, Joined(w), NEW s \in Searches(w), ~Ended(s), Right(w, s),
           Chosen(s) \notin s.visiting \cup s.visited
    PROVE  Right(w, Entered(w, s, Chosen(s)))
  <1> DEFINE id == Chosen(s)
             e == Entered(w, s, id)
  <1>1. id \in s.todo /\ id \in Ids(w) /\ ~s.found
    BY SearchFields DEF Ended
  <1>2. /\ ~e.found /\ e.visiting = s.visiting \cup {id} /\ e.visited = s.visited
        /\ e.todo = Targets(w, id)
    BY <1>1, EnteredFields
  <1>3. Explorable(w, s) /\ id \notin s.visiting /\ id \notin s.visited
    BY <1>1 DEF Right
  <1> HIDE DEF id, e
  <1>4. \A v \in e.visiting \ {id} : Targets(w, v) \cap e.visiting # {}
    <2> SUFFICES ASSUME NEW v \in s.visiting PROVE Targets(w, v) \cap e.visiting # {}
      BY <1>2
    <2>1. PICK top \in s.visiting : /\ s.todo \subseteq Targets(w, top)
                                   /\ \A u \in s.visiting \ {top} : Targets(w, u) \cap s.visiting # {}
      BY <1>3 DEF Explorable
    <2> QED
      BY <1>1, <1>2, <2>1
  <1>5. Explorable(w, e)
    BY <1>2, <1>3, <1>4 DEF Explorable
  <1> QED
    BY <1>2, <1>5 DEF Right, e, id

LEMMA LeftRight ==
    ASSUME NEW w \in Drafts, Joined(w), NEW s \in Searches(w), ~Ended(s), Right(w, s),
           Chosen(s) \notin s.visiting \cup s.visited,
           NEW b, Outcome(w, Entered(w, s, Chosen(s)), b)
    PROVE  /\ Right(w, Left(Rest(s), b, Chosen(s)))
           /\ Kept(s, Left(Rest(s), b, Chosen(s)))
  <1> DEFINE id == Chosen(s)
             r == Rest(s)
             e == Entered(w, s, id)
             a == Left(r, b, id)
  <1>1. /\ id \in s.todo /\ id \in Ids(w) /\ ~s.found
        /\ r \in Searches(w) /\ r.todo = s.todo \ {id}
    BY SearchFields DEF Ended
  <1>2. /\ ~e.found /\ e.visiting = s.visiting \cup {id} /\ e.visited = s.visited
        /\ e.todo = Targets(w, id)
    BY <1>1, EnteredFields
  <1>3. Explorable(w, s) /\ id \notin s.visiting /\ id \notin s.visited
    BY <1>1 DEF Right
  <1>4. b \in Searches(w) /\ Back(e, b) /\ Kept(e, b) /\ Ended(b) /\ Right(w, b)
    BY EnteredRight DEF Outcome
  <1> HIDE DEF id, r, e
  <1>5. /\ a.found <=> b.found
        /\ a.visiting = b.visiting \ {id}
        /\ a.visited = b.visited \cup {id}
        /\ a.todo = s.todo \ {id}
    BY <1>1, <1>4 DEF Searches, Left, Explored
  <1> HIDE DEF a
  <1>6. ASSUME b.found PROVE Right(w, a) /\ Kept(s, a)
    BY <1>4, <1>5, <1>6 DEF Right, Kept
  <1>7. ASSUME ~b.found PROVE Right(w, a) /\ Kept(s, a)
    <2>1. /\ Explorable(w, b) /\ b.todo = {} /\ b.visiting = s.visiting \cup {id}
          /\ s.visited \subseteq b.visited /\ Targets(w, id) \subseteq b.visited
      BY <1>2, <1>4, <1>7 DEF Right, Back, Kept, Ended
    <2>2. id \notin b.visited /\ b.visiting \cap b.visited = {}
      BY <2>1 DEF Explorable
    <2>3. a.visiting = s.visiting
      BY <1>3, <1>5, <2>1
    <2>4. a.visiting \cap a.visited = {}
      BY <1>3, <1>5, <2>1, <2>2, <2>3
    <2>5. \A v \in a.visited : Targets(w, v) \subseteq a.visited
      BY <1>5, <2>1 DEF Explorable
    <2>6. ASSUME NEW S \in (SUBSET a.visited) \ {{}} PROVE \E v \in S : Targets(w, v) \cap S = {}
      <3>1. CASE S = {id}
        BY <2>1, <2>2, <3>1
      <3>2. CASE S # {id}
        <4> DEFINE T == S \ {id}
        <4>1. T \in (SUBSET b.visited) \ {{}}
          BY <1>5, <3>2
        <4>2. PICK v \in T : Targets(w, v) \cap T = {}
          BY <2>1, <4>1 DEF Explorable
        <4>3. Targets(w, v) \subseteq b.visited
          BY <2>1, <4>1 DEF Explorable
        <4> QED
          BY <2>2, <4>2, <4>3
      <3> QED
        BY <3>1, <3>2
    <2>7. ASSUME a.visiting # {}
          PROVE  \E top \in a.visiting :
                    /\ a.todo \subseteq Targets(w, top)
                    /\ \A v \in a.visiting \ {top} : Targets(w, v) \cap a.visiting # {}
      BY <1>3, <1>5, <2>3, <2>7 DEF Explorable
    <2>8. Explorable(w, a)
      BY <2>4, <2>5, <2>6, <2>7 DEF Explorable
    <2> QED
      BY <1>5, <1>7, <2>1, <2>8 DEF Right, Kept
  <1>8. b.found \in BOOLEAN
    BY <1>4 DEF Searches
  <1> QED
    BY <1>6, <1>7, <1>8 DEF a, r, id

LEMMA RoundRight ==
    ASSUME NEW w \in Drafts, Joined(w), NEW f, NEW s \in Searches(w), ~Ended(s),
           Chosen(s) \notin s.visiting \cup s.visited =>
                LET e == Entered(w, s, Chosen(s)) IN Outcome(w, e, f[e])
    PROVE  Right(w, s) => Right(w, After(w, f, s)) /\ Kept(s, After(w, f, s))
  <1> DEFINE id == Chosen(s)
             a == After(w, f, s)
  <1>1. /\ id \in s.todo /\ id \in Ids(w) /\ ~s.found
        /\ Rest(s) \in Searches(w) /\ ~Rest(s).found /\ Rest(s).visiting = s.visiting
        /\ Rest(s).todo = s.todo \ {id} /\ Rest(s).visited = s.visited
    BY SearchFields DEF Ended
  <1>2. CASE id \in s.visiting
    <2>1. a = [Rest(s) EXCEPT !.found = TRUE]
      BY <1>2 DEF After
    <2>2. a.found
      BY <1>1, <2>1 DEF Searches
    <2>3. ASSUME Right(w, s) PROVE Cyclic(w)
      <3> DEFINE S == s.visiting
      <3>1. PICK top \in S : /\ s.todo \subseteq Targets(w, top)
                             /\ \A v \in S \ {top} : Targets(w, v) \cap S # {}
        BY <1>1, <1>2, <2>3 DEF Right, Explorable
      <3>2. \A v \in S : Targets(w, v) \cap S # {}
        BY <1>1, <1>2, <3>1
      <3>3. S \in (SUBSET Ids(w)) \ {{}}
        BY <1>2, SearchFields
      <3> HIDE DEF S
      <3> QED
        BY <3>2, <3>3 DEF Cyclic
    <2> QED
      BY <2>2, <2>3 DEF Kept, Right
  <1>3. CASE id \in s.visited \ s.visiting
    <2>1. a = Rest(s)
      BY <1>3 DEF After
    <2>2. Explorable(w, s) => Explorable(w, Rest(s))
      BY <1>1 DEF Explorable
    <2> QED
      BY <1>1, <1>3, <2>1, <2>2 DEF Kept, Right
  <1>4. CASE id \notin s.visiting \cup s.visited
    <2>1. a = Left(Rest(s), f[Entered(w, s, id)], id)
      BY <1>4 DEF After
    <2>2. ASSUME Right(w, s) PROVE Right(w, a) /\ Kept(s, a)
      BY <1>4, <2>1, <2>2, LeftRight
    <2> QED
      BY <2>2
  <1> QED
    BY <1>2, <1>3, <1>4

LEMMA VisitRight ==
    ASSUME NEW w \in Drafts, Joined(w), NEW s \in Searches(w)
    PROVE  Outcome(w, s, Visit(w)[s])
  <1> DEFINE f == Visit(w)
             S == {n \in Nat : \A q \in Searches(w) : ToGo(w, q) < n => Outcome(w, q, f[q])}
  <1>1. \A q \in Searches(w) : f[q] = Continued(w, f, q)
    BY VisitEnds DEF Searching
  <1> HIDE DEF f
  <1>2. 0 \in S
    <2>1. ASSUME NEW q \in Searches(w) PROVE ~(ToGo(w, q) < 0)
      <3>1. ToGo(w, q) \in Nat
        BY Numbers
      <3> QED
        BY <3>1
    <2> QED
      BY <2>1
  <1>3. ASSUME NEW n \in S PROVE n + 1 \in S
    <2> SUFFICES ASSUME NEW q \in Searches(w), ToGo(w, q) < n + 1
                 PROVE  Outcome(w, q, f[q])
      OBVIOUS
    <2>1. CASE Ended(q)
      <3>1. f[q] = q
        BY <1>1, <2>1 DEF Continued
      <3> QED
        BY <2>1, <3>1 DEF Outcome, Back, Kept
    <2>2. CASE ~Ended(q)
      <3> DEFINE e == Entered(w, q, Chosen(q))
                 a == After(w, f, q)
      <3>1. e \in Searches(w)
        BY <2>2, SearchFields, EnteredFields
      <3>2. ToGo(w, q) \in Nat /\ ToGo(w, e) \in Nat
        BY <3>1, Numbers
      <3>3. ASSUME Chosen(q) \notin q.visiting \cup q.visited PROVE Outcome(w, e, f[e])
        <4>1. ToGo(w, e) < ToGo(w, q)
          BY <2>2, <3>3, ToGoFalls
        <4> HIDE DEF e
        <4>2. ToGo(w, e) < n
          BY <2>2, <3>2, <4>1
        <4> QED
          BY <3>1, <4>2
      <3>4. Chosen(q) \notin q.visiting \cup q.visited => f[e] \in Searches(w) /\ Back(e, f[e])
        BY <3>3 DEF Outcome
      <3>5. a \in Searches(w) /\ ToGo(w, a) < ToGo(w, q) /\ Back(q, a)
        BY <2>2, <3>4, RoundFalls
      <3>6. Right(w, q) => Right(w, a) /\ Kept(q, a)
        BY <2>2, <3>3, RoundRight
      <3>7. f[q] = f[a]
        BY <1>1, <2>2 DEF Continued
      <3> HIDE DEF a
      <3>8. ToGo(w, a) < n
        <4>1. ToGo(w, a) \in Nat
          BY <3>5, Numbers
        <4> QED
          BY <3>2, <3>5, <4>1
      <3>9. Outcome(w, a, f[a])
        BY <3>5, <3>8
      <3> QED
        BY <3>5, <3>6, <3>7, <3>9 DEF Outcome, Back, Kept
    <2> QED
      BY <2>1, <2>2
  <1>4. S = Nat
    <2>1. S \in SUBSET Nat
      OBVIOUS
    <2> HIDE DEF S
    <2> QED
      BY <1>2, <1>3, <2>1, Counting
  <1>5. ToGo(w, s) + 1 \in Nat /\ ToGo(w, s) < ToGo(w, s) + 1
    <2>1. ToGo(w, s) \in Nat
      BY Numbers
    <2> QED
      BY <2>1
  <1> QED
    BY <1>4, <1>5 DEF f

LEMMA SearchIsRight ==
    ASSUME NEW w \in Drafts, Joined(w)
    PROVE  HasCycle(w) = Cyclic(w)
  <1> DEFINE s == Unsearched(w)
             r == Visit(w)[s]
  <1>1. s \in Searches(w) /\ ~s.found /\ s.visiting = {} /\ s.visited = {} /\ s.todo = Ids(w)
    BY DEF Unsearched, Searches
  <1>2. Right(w, s)
    <2> HIDE DEF s
    <2> QED
      BY <1>1 DEF Right, Explorable
  <1>3. r \in Searches(w) /\ Ended(r) /\ Right(w, r) /\ Kept(s, r)
    BY <1>1, <1>2, VisitRight DEF Outcome
  <1> HIDE DEF r, s
  <1>4. r.found \in BOOLEAN
    BY <1>3 DEF Searches
  <1>5. ASSUME ~r.found PROVE ~Cyclic(w)
    <2>1. Ids(w) \subseteq r.visited
      BY <1>1, <1>3, <1>5 DEF Kept, Ended
    <2>2. \A S \in (SUBSET r.visited) \ {{}} : \E v \in S : Targets(w, v) \cap S = {}
      BY <1>3, <1>5 DEF Right, Explorable
    <2> QED
      BY <2>1, <2>2 DEF Cyclic
  <1>6. r.found <=> Cyclic(w)
    BY <1>3, <1>5 DEF Right
  <1>7. Cyclic(w) \in BOOLEAN
    BY DEF Cyclic
  <1> QED
    BY <1>4, <1>6, <1>7 DEF HasCycle, r, s

(* has_cycle finds a cycle if and only if there is one, in every workflow  *)
(* whose connections join its steps.                                       *)
THEOREM CyclesFound == WorkflowSpec => []CyclesAreFound
  <1>1. WorkflowInv => CyclesAreFound
    BY SearchIsRight DEF WorkflowInv, CyclesAreFound
  <1> QED
    BY <1>1, WorkflowAlways, PTL
=============================================================================
