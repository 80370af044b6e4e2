------------------------- MODULE TaskManagerProofs -------------------------
(***************************************************************************)
(* Proofs that TaskManager keeps its invariants for any set of names and   *)
(* any sequence of calls.  No invariant the runs check is inductive alone: *)
(* which tasks IterTaskDone releases depends on pending_deps_ being exact, *)
(* which depends on the graph records agreeing and on no task being in two *)
(* places at once.  IInv is their conjunction.                             *)
(***************************************************************************)
EXTENDS TaskManager, FiniteSetTheorems, SequenceTheorems, TLAPS

IInv ==
  /\ TypeOK
  /\ GraphConsistent
  /\ IterationPartition
  /\ PendingDepsExact
  /\ DependenciesMet
  /\ PendingExact
  /\ Debug => Acyclic

-----------------------------------------------------------------------------
(***************************************************************************)
(* Facts about vectors.                                                    *)
(***************************************************************************)

\* A set of task ids is finite: ids are vector indices.
LEMMA IdsFinite ==
  ASSUME NEW n \in Nat, NEW S \in SUBSET (1..n)
  PROVE  IsFiniteSet(S) /\ Cardinality(S) \in Nat
  <1>1. IsFiniteSet(1..n)
    BY FS_Interval
  <1>2. IsFiniteSet(S)
    BY <1>1, FS_Subset
  <1>. QED
    BY <1>2, FS_CardinalityType

\* Listing a finite set of ids in ascending order gives a vector of exactly its
\* elements, each once.
LEMMA AscendingListing ==
  ASSUME NEW n \in Nat, NEW S \in SUBSET (1..n), NEW s \in Ascending(S)
  PROVE  /\ s \in Seq(S)
         /\ Elements(s) = S
         /\ Distinct(s)
  <1>0. \A x \in S : x \in Nat
    OBVIOUS
  <1>1. Cardinality(S) \in Nat
    BY IdsFinite
  <1>2. s \in [1..Cardinality(S) -> S]
    BY DEF Ascending
  <1>3. s \in Seq(S) /\ Len(s) = Cardinality(S)
    BY <1>1, <1>2
  <1>4. Elements(s) = S
    BY <1>3 DEF Ascending, Elements
  <1>5. ASSUME NEW i \in 1..Len(s), NEW j \in 1..Len(s), s[i] = s[j]
        PROVE  i = j
    <2>1. i < j => s[i] < s[j]
      BY <1>3 DEF Ascending
    <2>2. j < i => s[j] < s[i]
      BY <1>3 DEF Ascending
    <2>3. s[i] \in S /\ s[j] \in S
      BY <1>3
    <2>4. s[i] \in Nat /\ s[j] \in Nat
      BY <1>0, <2>3
    <2>. QED
      BY <1>1, <1>3, <1>5, <2>1, <2>2, <2>4
  <1>. QED
    BY <1>3, <1>4, <1>5 DEF Distinct

\* A function on 1..n is a vector of n elements, and the other way round.
LEMMA FunctionIsVector ==
  ASSUME NEW T, NEW n \in Nat
  PROVE  /\ \A f \in [1..n -> T] : f \in Seq(T) /\ Len(f) = n
         /\ \A f \in Seq(T) : Len(f) = n => f \in [1..n -> T]
  OBVIOUS

\* Concatenation joins the elements of two vectors, and stays free of duplicates
\* when the two have no element in common.
LEMMA ConcatElements ==
  ASSUME NEW T, NEW s \in Seq(T), NEW u \in Seq(T)
  PROVE  /\ s \o u \in Seq(T)
         /\ Elements(s \o u) = Elements(s) \union Elements(u)
         /\ (Distinct(s) /\ Distinct(u) /\ Elements(s) \intersect Elements(u) = {})
              => Distinct(s \o u)
  <1>1. s \o u \in Seq(T) /\ Len(s \o u) = Len(s) + Len(u)
    OBVIOUS
  <1>2. Len(s) \in Nat /\ Len(u) \in Nat
    OBVIOUS
  <1>3. \A i \in 1..Len(s) : (s \o u)[i] = s[i]
    OBVIOUS
  <1>4. \A i \in 1..Len(u) : (s \o u)[Len(s) + i] = u[i]
    BY <1>2
  <1>5. \A i \in 1..Len(s \o u) :
          \/ i \in 1..Len(s)
          \/ \E k \in 1..Len(u) : i = Len(s) + k
    <2> SUFFICES ASSUME NEW i \in 1..Len(s \o u), i \notin 1..Len(s)
                 PROVE  \E k \in 1..Len(u) : i = Len(s) + k
      OBVIOUS
    <2>1. (i - Len(s)) \in 1..Len(u) /\ i = Len(s) + (i - Len(s))
      BY <1>1, <1>2
    <2>. QED
      BY <2>1
  <1>6. Elements(s \o u) = Elements(s) \union Elements(u)
    <2>1. Elements(s \o u) \subseteq Elements(s) \union Elements(u)
      BY <1>3, <1>4, <1>5 DEF Elements
    <2>2. Elements(s) \subseteq Elements(s \o u)
      BY <1>1, <1>2, <1>3 DEF Elements
    <2>3. Elements(u) \subseteq Elements(s \o u)
      <3>1. \A k \in 1..Len(u) : Len(s) + k \in 1..Len(s \o u)
        BY <1>1, <1>2
      <3>. QED
        BY <1>4, <3>1 DEF Elements
    <2>. QED
      BY <2>1, <2>2, <2>3
  <1>7. ASSUME Distinct(s), Distinct(u), Elements(s) \intersect Elements(u) = {}
        PROVE  Distinct(s \o u)
    <2> SUFFICES ASSUME NEW i \in 1..Len(s \o u), NEW j \in 1..Len(s \o u),
                        (s \o u)[i] = (s \o u)[j]
                 PROVE  i = j
      BY DEF Distinct
    <2>1. CASE i \in 1..Len(s) /\ j \in 1..Len(s)
      BY <1>3, <1>7, <2>1 DEF Distinct
    <2>2. CASE \E k, l \in 1..Len(u) : i = Len(s) + k /\ j = Len(s) + l
      BY <1>4, <1>7, <2>2 DEF Distinct
    <2>3. CASE i \in 1..Len(s) /\ \E k \in 1..Len(u) : j = Len(s) + k
      BY <1>3, <1>4, <1>7, <2>3 DEF Elements
    <2>4. CASE j \in 1..Len(s) /\ \E k \in 1..Len(u) : i = Len(s) + k
      BY <1>3, <1>4, <1>7, <2>4 DEF Elements
    <2>. QED
      BY <1>5, <2>1, <2>2, <2>3, <2>4
  <1>. QED
    BY <1>1, <1>6, <1>7

\* Removing the last element of a vector without duplicates removes that value.
LEMMA PopElements ==
  ASSUME NEW T, NEW s \in Seq(T), s # <<>>, Distinct(s),
         NEW u, u = SubSeq(s, 1, Len(s) - 1)
  PROVE  /\ u \in Seq(T)
         /\ s[Len(s)] \in Elements(s)
         /\ Elements(u) = Elements(s) \ {s[Len(s)]}
         /\ Distinct(u)
  <1>1. Len(s) \in Nat \ {0}
    OBVIOUS
  <1>2. u \in Seq(T) /\ Len(u) = Len(s) - 1
    <2>1. 1 \in Int /\ Len(s) - 1 \in Int /\ \A i \in 1..(Len(s) - 1) : s[i] \in T
      BY <1>1
    <2>2. /\ SubSeq(s, 1, Len(s) - 1) \in Seq(T)
          /\ Len(SubSeq(s, 1, Len(s) - 1)) =
               IF 1 <= Len(s) - 1 THEN (Len(s) - 1) - 1 + 1 ELSE 0
      BY <2>1, SubSeqProperties
    <2>3. u \in Seq(T) /\ Len(u) = IF 1 <= Len(s) - 1 THEN (Len(s) - 1) - 1 + 1 ELSE 0
      BY <2>2
    <2>4. \A n \in Nat \ {0} : (IF 1 <= n - 1 THEN (n - 1) - 1 + 1 ELSE 0) = n - 1
      OBVIOUS
    <2>. QED
      BY <1>1, <2>3, <2>4
  <1>3. \A i \in 1..Len(s) - 1 : u[i] = s[i]
    BY <1>1
  <1>4. s[Len(s)] \in Elements(s)
    BY <1>1 DEF Elements
  <1>5. Distinct(u)
    BY <1>1, <1>2, <1>3 DEF Distinct
  <1>6. Elements(u) = Elements(s) \ {s[Len(s)]}
    <2>1. Elements(u) = {s[i] : i \in 1..Len(s) - 1}
      BY <1>2, <1>3 DEF Elements
    <2>2. \A i \in 1..Len(s) - 1 : s[i] # s[Len(s)]
      BY <1>1 DEF Distinct
    <2>3. 1..Len(s) = (1..Len(s) - 1) \union {Len(s)}
      BY <1>1
    <2>. QED
      BY <2>1, <2>2, <2>3 DEF Elements
  <1>. QED
    BY <1>2, <1>4, <1>5, <1>6

-----------------------------------------------------------------------------
(***************************************************************************)
(* IInv is inductive.                                                      *)
(***************************************************************************)

\* A new TaskManager satisfies the invariant.
LEMMA InitIInv == Init => IInv
  <1> SUFFICES ASSUME Init PROVE IInv
    OBVIOUS
  <1> USE DEF Init
  <1>1. TaskId = {}
    BY DEF TaskId
  <1>2. TypeOK
    <2>1. \A T : <<>> \in Seq(T) /\ <<>> \in [{} -> T]
      OBVIOUS
    <2>. QED
      BY <1>1, <2>1 DEF TypeOK
  <1>3. GraphConsistent
    BY <1>1 DEF GraphConsistent
  <1>4. Acyclic
    BY <1>1 DEF Acyclic
  <1>. QED
    BY <1>2, <1>3, <1>4 DEF IInv, IterationPartition, PendingDepsExact,
       DependenciesMet, PendingExact

\* RegisterTask() adds a task without dependencies and touches no iteration data.
LEMMA RegisterIInv ==
  ASSUME IInv, NEW name \in Names, RegisterTask(name)
  PROVE  IInv'
  <1> USE DEF RegisterTask, iterVars
  <1> DEFINE new == Len(tasks_) + 1
  <1>1. tasks_ \in Seq(Names) /\ Len(tasks_) \in Nat
    BY DEF IInv, TypeOK
  <1>2. TaskId' = TaskId \union {new} /\ new \notin TaskId
    BY <1>1 DEF TaskId
  <1>3. /\ parents_ \in [1..Len(tasks_) -> SUBSET Nat]
        /\ children_ \in [1..Len(tasks_) -> SUBSET Nat]
    BY DEF IInv, TypeOK, TaskId
  <1>4. /\ parents_' \in [1..new -> SUBSET Nat]
        /\ \A t \in 1..Len(tasks_) : parents_'[t] = parents_[t]
        /\ parents_'[new] = {}
    <2> DEFINE T == SUBSET Nat
    <2>1. parents_ \in Seq(T) /\ Len(parents_) = Len(tasks_)
      BY <1>1, <1>3, FunctionIsVector
    <2>2. parents_' = Append(parents_, {}) /\ {} \in T
      OBVIOUS
    <2> HIDE DEF T, RegisterTask
    <2>3. /\ parents_' \in Seq(T)
          /\ Len(parents_') = Len(parents_) + 1
          /\ \A t \in 1..Len(parents_) : parents_'[t] = parents_[t]
          /\ parents_'[Len(parents_) + 1] = {}
      BY <2>1, <2>2, AppendProperties
    <2>4. parents_' \in [1..new -> T]
      BY <1>1, <2>1, <2>3, FunctionIsVector
    <2>. QED
      BY <2>1, <2>3, <2>4 DEF T
  <1>5. /\ children_' \in [1..new -> SUBSET Nat]
        /\ \A t \in 1..Len(tasks_) : children_'[t] = children_[t]
        /\ children_'[new] = {}
    <2> DEFINE T == SUBSET Nat
    <2>1. children_ \in Seq(T) /\ Len(children_) = Len(tasks_)
      BY <1>1, <1>3, FunctionIsVector
    <2>2. children_' = Append(children_, {}) /\ {} \in T
      OBVIOUS
    <2> HIDE DEF T, RegisterTask
    <2>3. /\ children_' \in Seq(T)
          /\ Len(children_') = Len(children_) + 1
          /\ \A t \in 1..Len(children_) : children_'[t] = children_[t]
          /\ children_'[Len(children_) + 1] = {}
      BY <2>1, <2>2, AppendProperties
    <2>4. children_' \in [1..new -> T]
      BY <1>1, <2>1, <2>3, FunctionIsVector
    <2>. QED
      BY <2>1, <2>3, <2>4 DEF T
  <1>6. /\ \A t \in TaskId : parents_'[t] = parents_[t] /\ children_'[t] = children_[t]
        /\ parents_' \in [TaskId' -> SUBSET TaskId']
        /\ children_' \in [TaskId' -> SUBSET TaskId']
    <2>1. TaskId = 1..Len(tasks_) /\ TaskId' = 1..new
      BY <1>1 DEF TaskId
    <2>2. \A t \in TaskId : parents_[t] \subseteq TaskId /\ children_[t] \subseteq TaskId
      BY DEF IInv, TypeOK
    <2>3. \A t \in TaskId' : parents_'[t] \subseteq TaskId' /\ children_'[t] \subseteq TaskId'
      BY <1>2, <1>4, <1>5, <2>1, <2>2
    <2>. QED
      BY <1>4, <1>5, <2>1, <2>3
  <1>7. TypeOK'
    <2>1. ready_tasks_' \in Seq(TaskId')
      BY <1>2 DEF IInv, TypeOK
    <2>. QED
      BY <1>1, <1>2, <1>6, <2>1 DEF IInv, TypeOK
  <1>8. GraphConsistent'
    <2>1. \A t \in TaskId : parents_[t] \subseteq TaskId /\ children_[t] \subseteq TaskId
      BY DEF IInv, TypeOK
    <2>2. \A t, d \in TaskId' : d \in parents_'[t] <=> t \in children_'[d]
      BY <1>2, <1>4, <1>5, <1>6, <2>1 DEF IInv, GraphConsistent
    <2>. QED
      BY <1>2, <1>4, <1>5, <1>6, <2>2 DEF IInv, GraphConsistent
  <1>9. Acyclic => Acyclic'
    <2> SUFFICES ASSUME Acyclic, NEW S \in SUBSET TaskId', S # {}
                 PROVE  \E t \in S : parents_'[t] \intersect S = {}
      BY DEF Acyclic
    <2>1. CASE new \in S
      BY <1>4, <2>1
    <2>2. CASE new \notin S
      <3>1. S \in SUBSET TaskId
        BY <1>2, <2>2
      <3>. QED
        BY <1>6, <3>1 DEF Acyclic
    <2>. QED
      BY <2>1, <2>2
  <1>. QED
    BY <1>7, <1>8, <1>9 DEF IInv, IterationPartition, PendingDepsExact,
       DependenciesMet, PendingExact

(***************************************************************************)
(* A set that would be cyclic after the new dependency was cyclic before:  *)
(* its members among the ancestors of the dependency, a parent-closed set  *)
(* that does not hold the task, all have a parent among themselves.        *)
(***************************************************************************)
LEMMA AddDependencyIInv ==
  ASSUME IInv, NEW task \in TaskId, NEW dependency \in TaskId,
         AddDependency(task, dependency)
  PROVE  IInv'
  <1> USE DEF AddDependency, iterVars
  <1>1. TaskId' = TaskId
    BY DEF TaskId
  <1>2. parents_ \in [TaskId -> SUBSET TaskId] /\ children_ \in [TaskId -> SUBSET TaskId]
    BY DEF IInv, TypeOK
  <1>3. TypeOK'
    BY <1>1, <1>2 DEF IInv, TypeOK
  <1>4. GraphConsistent'
    <2>1. \A t, d \in TaskId : d \in parents_'[t] <=> t \in children_'[d]
      BY <1>2 DEF IInv, GraphConsistent
    <2>2. roots_' = {t \in TaskId : parents_'[t] = {}}
      BY <1>2 DEF IInv, GraphConsistent
    <2>3. leaves_' = {t \in TaskId : children_'[t] = {}}
      BY <1>2 DEF IInv, GraphConsistent
    <2>. QED
      BY <1>1, <2>1, <2>2, <2>3 DEF GraphConsistent
  <1>5. ASSUME Debug, Acyclic
        PROVE  Acyclic'
    <2>1. PICK A \in SUBSET TaskId :
            dependency \in A /\ (\A i \in A : parents_[i] \subseteq A) /\ task \notin A
      BY <1>5 DEF WillCauseCyclicDependency
    <2> SUFFICES ASSUME NEW S \in SUBSET TaskId, S # {},
                        \A t \in S : parents_'[t] \intersect S # {}
                 PROVE  FALSE
      BY <1>1 DEF Acyclic
    <2>2. \A t \in S \ {task} : parents_'[t] = parents_[t]
      BY <1>2
    <2>3. PICK x \in S : parents_[x] \intersect S = {}
      BY <1>5 DEF Acyclic
    <2>4. x = task
      BY <2>2, <2>3
    <2>5. dependency \in S
      BY <1>2, <2>3, <2>4
    <2>6. \A y \in S \intersect A : parents_[y] \intersect (S \intersect A) # {}
      <3> SUFFICES ASSUME NEW y \in S \intersect A
                   PROVE  parents_[y] \intersect (S \intersect A) # {}
        OBVIOUS
      <3>1. y # task
        BY <2>1
      <3>2. PICK p : p \in parents_'[y] /\ p \in S
        OBVIOUS
      <3>3. p \in parents_[y]
        BY <2>2, <3>1, <3>2
      <3>. QED
        BY <2>1, <3>2, <3>3
    <2>7. S \intersect A \in SUBSET TaskId /\ S \intersect A # {}
      BY <2>1, <2>5
    <2>. QED
      BY <1>5, <2>6, <2>7 DEF Acyclic
  <1>. QED
    BY <1>3, <1>4, <1>5 DEF IInv, IterationPartition, PendingDepsExact,
       DependenciesMet, PendingExact

\* Finalise() and IterReset() both start an iteration from the graph.
LEMMA ResetIterationIInv ==
  ASSUME IInv, ResetIteration, finalised_' = TRUE, UNCHANGED graphVars
  PROVE  IInv'
  <1> USE DEF ResetIteration, graphVars
  <1>1. TaskId' = TaskId /\ Len(tasks_) \in Nat
    BY DEF TaskId, IInv, TypeOK
  <1>2. roots_ \in SUBSET TaskId
    BY DEF IInv, TypeOK
  <1>3. ready_tasks_' \in Seq(roots_) /\ Elements(ready_tasks_') = roots_
        /\ Distinct(ready_tasks_')
    BY <1>1, <1>2, AscendingListing DEF TaskId
  <1>4. TypeOK'
    BY <1>1, <1>2, <1>3 DEF IInv, TypeOK
  <1>5. GraphConsistent' /\ (Debug => Acyclic')
    BY <1>1 DEF IInv, GraphConsistent, Acyclic
  <1>6. IterationPartition'
    BY <1>1, <1>2, <1>3 DEF IterationPartition
  <1>7. PendingDepsExact' /\ DependenciesMet' /\ PendingExact'
    BY <1>1, <1>3 DEF IInv, GraphConsistent, PendingDepsExact, DependenciesMet,
       PendingExact
  <1>. QED
    BY <1>4, <1>5, <1>6, <1>7 DEF IInv

\* IterTaskPop() moves the last ready task to assigned_tasks_.
LEMMA PopIInv ==
  ASSUME IInv, IterTaskPop
  PROVE  IInv'
  <1> USE DEF IterTaskPop, graphVars
  <1>1. TaskId' = TaskId
    BY DEF TaskId
  <1>2. ready_tasks_ \in Seq(TaskId) /\ ready_tasks_ # <<>> /\ Distinct(ready_tasks_)
    BY DEF IInv, TypeOK, IterationPartition, IterTaskAvailable
  <1>3. /\ ready_tasks_' \in Seq(TaskId)
        /\ NextReady \in Elements(ready_tasks_)
        /\ Elements(ready_tasks_') = Elements(ready_tasks_) \ {NextReady}
        /\ Distinct(ready_tasks_')
    BY <1>2, PopElements DEF NextReady
  <1>4. Elements(ready_tasks_) \subseteq TaskId
    BY <1>2 DEF Elements
  <1>5. TypeOK'
    BY <1>1, <1>3, <1>4 DEF IInv, TypeOK
  <1>6. GraphConsistent' /\ (Debug => Acyclic')
    BY <1>1 DEF IInv, GraphConsistent, Acyclic
  <1>7. IterationPartition'
    BY <1>1, <1>3 DEF IInv, IterationPartition
  <1>8. PendingDepsExact' /\ DependenciesMet' /\ PendingExact'
    BY <1>1, <1>3 DEF IInv, PendingDepsExact, DependenciesMet, PendingExact
  <1>. QED
    BY <1>5, <1>6, <1>7, <1>8 DEF IInv

(***************************************************************************)
(* The tasks IterTaskDone releases are pending, since the completed task   *)
(* was still in their pending_deps_: so none is made ready twice.          *)
(***************************************************************************)
LEMMA DoneIInv ==
  ASSUME IInv, NEW task \in TaskId, IterTaskDone(task)
  PROVE  IInv'
  <1> USE DEF IterTaskDone, graphVars
  <1> DEFINE R == Released(task)
  <1>1. TaskId' = TaskId /\ Len(tasks_) \in Nat
    BY DEF TaskId, IInv, TypeOK
  <1>2. /\ parents_ \in [TaskId -> SUBSET TaskId]
        /\ children_ \in [TaskId -> SUBSET TaskId]
        /\ pending_deps_ \in [TaskId -> SUBSET TaskId]
        /\ ready_tasks_ \in Seq(TaskId)
    BY DEF IInv, TypeOK
  <1>3. R \in SUBSET TaskId
    BY <1>2 DEF Released
  <1>4. task \in assigned_tasks_ /\ task \notin completed
    BY DEF IInv, IterationPartition
  <1>5. \A c \in TaskId : c \in children_[task] <=> task \in pending_deps_[c]
    BY <1>2, <1>4 DEF IInv, GraphConsistent, PendingDepsExact
  <1>6. \A c \in TaskId : pending_deps_'[c] = pending_deps_[c] \ {task}
    BY <1>2, <1>5
  <1>7. R = {c \in TaskId : pending_deps_[c] = {task}}
    BY <1>2, <1>5 DEF Released
  <1>8. R \subseteq pending_tasks_
    BY <1>7 DEF IInv, PendingExact
  <1>9. PICK s \in Ascending(R) : ready_tasks_' = ready_tasks_ \o s
    OBVIOUS
  <1>10. s \in Seq(R) /\ Elements(s) = R /\ Distinct(s)
    BY <1>1, <1>3, AscendingListing DEF TaskId
  <1>11. s \in Seq(TaskId)
    BY <1>3, <1>10
  <1>12. Distinct(ready_tasks_) /\ Elements(ready_tasks_) \intersect R = {}
    BY <1>8 DEF IInv, IterationPartition
  <1>13. /\ ready_tasks_' \in Seq(TaskId)
         /\ Elements(ready_tasks_') = Elements(ready_tasks_) \union R
         /\ Distinct(ready_tasks_')
    BY <1>2, <1>9, <1>10, <1>11, <1>12, ConcatElements
  <1>14. TypeOK'
    <2>1. pending_deps_' \in [TaskId -> SUBSET TaskId]
      BY <1>2
    <2>. QED
      BY <1>1, <1>13, <2>1 DEF IInv, TypeOK
  <1>15. GraphConsistent' /\ (Debug => Acyclic')
    BY <1>1 DEF IInv, GraphConsistent, Acyclic
  <1>16. IterationPartition'
    BY <1>1, <1>4, <1>8, <1>13 DEF IInv, IterationPartition
  <1>17. PendingDepsExact'
    BY <1>1, <1>6 DEF IInv, PendingDepsExact
  <1>18. DependenciesMet'
    <2>1. \A c \in R : parents_[c] \subseteq completed \union {task}
      BY <1>7 DEF IInv, PendingDepsExact
    <2>. QED
      BY <1>4, <1>13, <2>1 DEF IInv, DependenciesMet
  <1>19. PendingExact'
    <2>1. pending_tasks_ = {t \in TaskId : pending_deps_[t] # {}}
      BY DEF IInv, PendingExact
    <2>2. \A t \in TaskId : pending_deps_'[t] # {} <=> (pending_deps_[t] # {} /\ t \notin R)
      <3> SUFFICES ASSUME NEW t \in TaskId
                   PROVE  pending_deps_'[t] # {} <=> (pending_deps_[t] # {} /\ t \notin R)
        OBVIOUS
      <3>1. pending_deps_'[t] = pending_deps_[t] \ {task}
        BY <1>6
      <3>2. t \in R <=> pending_deps_[t] = {task}
        BY <1>7
      <3>. HIDE DEF R
      <3>. QED
        BY <3>1, <3>2
    <2>. QED
      BY <1>1, <2>1, <2>2 DEF PendingExact
  <1>. QED
    BY <1>14, <1>15, <1>16, <1>17, <1>18, <1>19 DEF IInv

\* Reset() brings back the initial state.
LEMMA ResetIInv == Reset => IInv'
  <1> SUFFICES ASSUME Reset PROVE IInv'
    OBVIOUS
  <1>1. Init'
    BY DEF Reset, Init
  <1>2. (Init => IInv)'
    BY InitIInv, PTL
  <1>. QED
    BY <1>1, <1>2

\* Every call, and every stuttering step, preserves the invariant.
LEMMA NextIInv == IInv /\ [Next]_vars => IInv'
  <1> SUFFICES ASSUME IInv, [Next]_vars PROVE IInv'
    OBVIOUS
  <1>1. ASSUME NEW n \in Names, RegisterTask(n) PROVE IInv'
    BY <1>1, RegisterIInv
  <1>2. ASSUME NEW t \in TaskId, NEW d \in TaskId, AddDependency(t, d) PROVE IInv'
    BY <1>2, AddDependencyIInv
  <1>3. CASE Finalise
    BY <1>3, ResetIterationIInv DEF Finalise
  <1>4. CASE IterReset
    BY <1>4, ResetIterationIInv DEF IterReset
  <1>5. CASE IterTaskPop
    BY <1>5, PopIInv
  <1>6. ASSUME NEW t \in TaskId, IterTaskDone(t) PROVE IInv'
    BY <1>6, DoneIInv
  <1>7. CASE Reset
    BY <1>7, ResetIInv
  <1>8. CASE UNCHANGED vars
    BY <1>8 DEF vars, graphVars, iterVars, IInv, TypeOK, TaskId, GraphConsistent,
       IterationPartition, PendingDepsExact, DependenciesMet, PendingExact, Acyclic
  <1>. QED
    BY <1>1, <1>2, <1>3, <1>4, <1>5, <1>6, <1>7, <1>8 DEF Next

-----------------------------------------------------------------------------
(***************************************************************************)
(* The theorems, for every set of names and both builds.                   *)
(***************************************************************************)

\* Every reachable state satisfies the inductive invariant.
THEOREM Inductive == Spec => []IInv
  <1>. QED
    BY InitIInv, NextIInv, PTL DEF Spec

\* Vectors and id sets keep their types and sizes under any sequence of calls.
THEOREM TypeCorrect == Spec => []TypeOK
  <1>1. IInv => TypeOK
    BY DEF IInv
  <1>. QED
    BY <1>1, Inductive, PTL

\* parents_, children_, roots_ and leaves_ always describe the same graph.
THEOREM GraphAlwaysConsistent == Spec => []GraphConsistent
  <1>1. IInv => GraphConsistent
    BY DEF IInv
  <1>. QED
    BY <1>1, Inductive, PTL

\* IterTaskPop() and IterTaskDone() never lose or duplicate a task.
THEOREM NoTaskLost == Spec => []IterationPartition
  <1>1. IInv => IterationPartition
    BY DEF IInv
  <1>. QED
    BY <1>1, Inductive, PTL

\* IterTaskPop() never hands out a task before all it depends on has completed.
THEOREM DependenciesRespected == Spec => [](DependenciesMet /\ PendingDepsExact)
  <1>1. IInv => DependenciesMet /\ PendingDepsExact
    BY DEF IInv
  <1>. QED
    BY <1>1, Inductive, PTL

(***************************************************************************)
(* In a DEBUG build no reachable iteration is stuck.  If nothing is ready  *)
(* or assigned, some pending task depends on no pending one because the    *)
(* graph is acyclic; all its dependencies are then completed, so it would  *)
(* not be pending.                                                         *)
(***************************************************************************)
THEOREM IterationNeverStuck == Spec => []NeverStuck
  <1>1. ASSUME IInv PROVE NeverStuck
    <2> SUFFICES ASSUME Debug, finalised_, ready_tasks_ = <<>>, assigned_tasks_ = {},
                        pending_tasks_ # {}
                 PROVE  FALSE
      BY DEF NeverStuck, IterCompleted, IterTaskAvailable
    <2>1. Elements(ready_tasks_) = {}
      BY DEF Elements
    <2>2. TaskId = pending_tasks_ \union completed /\ pending_tasks_ \in SUBSET TaskId
      BY <1>1, <2>1 DEF IInv, IterationPartition
    <2>3. PICK t \in pending_tasks_ : parents_[t] \intersect pending_tasks_ = {}
      BY <1>1, <2>2 DEF IInv, Acyclic
    <2>4. parents_[t] \subseteq TaskId
      BY <1>1, <2>2 DEF IInv, TypeOK
    <2>5. parents_[t] \subseteq completed
      BY <2>2, <2>3, <2>4
    <2>6. pending_deps_[t] = {}
      BY <1>1, <2>2, <2>5 DEF IInv, PendingDepsExact
    <2>7. pending_deps_[t] # {}
      BY <1>1, <2>2 DEF IInv, PendingExact
    <2>. QED
      BY <2>6, <2>7
  <1>. QED
    BY <1>1, Inductive, PTL

=============================================================================
