-------------------------- MODULE AgentThreadsProofs --------------------------
(***************************************************************************)
(* The safety properties of AgentThreads, for every number of calls,       *)
(* threads, turns and faults, every batch size and iteration limit.        *)
(*                                                                         *)
(* First the sums of FiniteSetsExt: MapThenSumSet is a recursive function  *)
(* over subsets, so what it computes is shown by induction over sets,      *)
(* stated with sets of numbers and sets of sets in place of predicates.    *)
(* Then the inductive invariant IInv, in parts, one lemma for each part    *)
(* and step, and the theorems.                                             *)
(***************************************************************************)
EXTENDS AgentThreads, FiniteSetTheorems, WellFoundedInduction, TLAPS

-----------------------------------------------------------------------------
(* Sums over finite sets.                                                   *)

Chosen(s) == CHOOSE x \in s : TRUE

(* What MapThenSumSet computes on the way, for every subset.              *)
Folds(i, g, S) ==
    i = [s \in SUBSET S |-> IF s = {} THEN 0
                            ELSE g[Chosen(s)] + i[s \ {Chosen(s)}]]

Sum(g, S) == (CHOOSE i : Folds(i, g, S))[S]

(* The sum of the community modules, by a name of its own.                 *)
LEMMA SumIsFold ==
    ASSUME NEW g, NEW S
    PROVE  MapThenSumSet(LAMBDA t : g[t], S) = Sum(g, S)
  BY DEF MapThenSumSet, MapThenFoldSet, Sum, Folds, Chosen

(* Every non-empty set of numbers has a least one.                         *)
LEMMA LeastNat ==
    ASSUME NEW T \in SUBSET Nat, T # {}
    PROVE  \E n \in T : \A m \in T : n <= m
<1>1. IsWellFoundedOn(OpToRel(<, Nat), Nat)
  BY NatLessThanWellFounded
<1>2. PICK n \in T : \A m \in T : <<m, n>> \notin OpToRel(<, Nat)
  BY <1>1, WFMin
<1>3. ASSUME NEW m \in T PROVE n <= m
  <2>1. ~(m < n)
    BY <1>2 DEF OpToRel
  <2> QED BY <2>1
<1> QED BY <1>3
(* Induction on numbers, the predicate given as a set.                     *)
LEMMA NatInductionBySet ==
    ASSUME NEW T \in SUBSET Nat, 0 \in T, \A n \in T : n + 1 \in T
    PROVE  \A n \in Nat : n \in T
<1> SUFFICES ASSUME NEW k \in Nat, k \notin T PROVE FALSE
  OBVIOUS
<1> DEFINE Missing == {n \in Nat : n \notin T}
<1>1. Missing \in SUBSET Nat /\ Missing # {}
  OBVIOUS
<1>2. PICK n \in Missing : \A m \in Missing : n <= m
  <2> HIDE DEF Missing
  <2> QED BY <1>1, LeastNat
<1>3. n # 0 /\ n - 1 \in Nat /\ n - 1 \notin Missing
  BY <1>2
<1>4. n - 1 + 1 \in T
  BY <1>3
<1> QED BY <1>2, <1>3, <1>4

(* Induction on the subsets of a finite set, the predicate given as a set. *)
LEMMA SubsetInduction ==
    ASSUME NEW S, IsFiniteSet(S), NEW Q \in SUBSET SUBSET S,
           \A s \in SUBSET S : (\A x \in s : s \ {x} \in Q) => s \in Q
    PROVE  \A s \in SUBSET S : s \in Q
<1> DEFINE Upto == {n \in Nat : \A s \in SUBSET S : Cardinality(s) = n => s \in Q}
<1>1. \A s \in SUBSET S : IsFiniteSet(s) /\ Cardinality(s) \in Nat
  BY FS_Subset, FS_CardinalityType
<1>2. 0 \in Upto
  <2> SUFFICES ASSUME NEW s \in SUBSET S, Cardinality(s) = 0 PROVE s \in Q
    OBVIOUS
  <2>1. s = {}
    BY <1>1, FS_EmptySet
  <2> QED BY <2>1
<1>3. ASSUME NEW n \in Upto PROVE n + 1 \in Upto
  <2> SUFFICES ASSUME NEW s \in SUBSET S, Cardinality(s) = n + 1 PROVE s \in Q
    OBVIOUS
  <2>0. n \in Nat /\ Cardinality(s) = n + 1
    OBVIOUS
  <2>1. ASSUME NEW x \in s PROVE s \ {x} \in Q
    <3>1. Cardinality(s \ {x}) = Cardinality(s) - 1
      BY <1>1, FS_RemoveElement
    <3>2. Cardinality(s \ {x}) = n /\ s \ {x} \in SUBSET S
      BY <3>1, <2>0
    <3> QED BY <3>2
  <2> QED BY <2>1
<1>4. \A n \in Nat : n \in Upto
  <2> HIDE DEF Upto
  <2>1. Upto \in SUBSET Nat
    BY DEF Upto
  <2> QED BY <1>2, <1>3, <2>1, NatInductionBySet
<1> QED BY <1>1, <1>4

(* The recursion has a solution: one that is good up to n elements gives   *)
(* one that is good up to n + 1.                                           *)
LEMMA FoldExists ==
    ASSUME NEW S, IsFiniteSet(S), NEW g
    PROVE  \E i : Folds(i, g, S)
<1> DEFINE Body(i, s) == IF s = {} THEN 0 ELSE g[Chosen(s)] + i[s \ {Chosen(s)}]
           Good(i, n) == \A s \in SUBSET S : Cardinality(s) <= n => i[s] = Body(i, s)
           Reach == {n \in Nat : \E i : Good(i, n)}
<1>1. \A s \in SUBSET S : IsFiniteSet(s) /\ Cardinality(s) \in Nat
  BY FS_Subset, FS_CardinalityType
<1>2. 0 \in Reach
  <2> DEFINE z == [s \in SUBSET S |-> 0]
  <2>1. Good(z, 0)
    BY <1>1, FS_EmptySet
  <2> QED BY <2>1
<1>3. ASSUME NEW n \in Reach PROVE n + 1 \in Reach
  <2>1. PICK i : Good(i, n)
    OBVIOUS
  <2> DEFINE j == [s \in SUBSET S |-> Body(i, s)]
  <2>2. ASSUME NEW s \in SUBSET S, Cardinality(s) <= n + 1 PROVE j[s] = Body(j, s)
    <3>1. CASE s = {}
      BY <3>1
    <3>2. CASE s # {}
      <4> DEFINE r == s \ {Chosen(s)}
      <4>1. Chosen(s) \in s
        BY <3>2 DEF Chosen
      <4>2. r \in SUBSET S /\ Cardinality(r) <= n
        BY <1>1, <2>2, <4>1, FS_RemoveElement
      <4>3. j[r] = i[r]
        BY <2>1, <4>2
      <4>4. j[s] = g[Chosen(s)] + i[r]
        BY <3>2
      <4> QED BY <3>2, <4>3, <4>4
    <3> QED BY <3>1, <3>2
  <2>3. Good(j, n + 1)
    BY <2>2
  <2>4. n + 1 \in Nat
    OBVIOUS
  <2> HIDE DEF j, Body
  <2>5. \E k : Good(k, n + 1)
    BY <2>3
  <2> QED BY <2>4, <2>5
<1>4. \A n \in Nat : n \in Reach
  <2>1. Reach \in SUBSET Nat
    OBVIOUS
  <2> HIDE DEF Reach
  <2> QED BY <1>2, <1>3, <2>1, NatInductionBySet
<1>5. PICK i : Good(i, Cardinality(S))
  BY <1>1, <1>4
<1>6. \A s \in SUBSET S : Cardinality(s) <= Cardinality(S)
  BY FS_Subset
<1> DEFINE j == [s \in SUBSET S |-> Body(i, s)]
<1>7. \A s \in SUBSET S : j[s] = i[s]
  BY <1>5, <1>6
<1>8. \A s \in SUBSET S : s # {} => Chosen(s) \in s
  BY DEF Chosen
<1>9. \A s \in SUBSET S : Body(i, s) = Body(j, s)
  BY <1>7
<1>10. Folds(j, g, S)
  BY <1>9 DEF Folds
<1> QED BY <1>10

(* So the chosen one is a solution.                                        *)
LEMMA FoldsIs ==
    ASSUME NEW S, IsFiniteSet(S), NEW g
    PROVE  /\ Folds(CHOOSE i : Folds(i, g, S), g, S)
           /\ Sum(g, S) = (CHOOSE i : Folds(i, g, S))[S]
  BY FoldExists DEF Sum

(* One step of the recursion.                                              *)
LEMMA FoldsBody ==
    ASSUME NEW S, NEW g, NEW i, Folds(i, g, S)
    PROVE  \A s \in SUBSET S :
              /\ s = {} => i[s] = 0
              /\ s # {} => /\ Chosen(s) \in s
                          /\ i[s] = g[Chosen(s)] + i[s \ {Chosen(s)}]
<1> SUFFICES ASSUME NEW s \in SUBSET S
             PROVE  /\ s = {} => i[s] = 0
                    /\ s # {} => /\ Chosen(s) \in s
                                /\ i[s] = g[Chosen(s)] + i[s \ {Chosen(s)}]
  OBVIOUS
<1>1. i[s] = IF s = {} THEN 0 ELSE g[Chosen(s)] + i[s \ {Chosen(s)}]
  BY DEF Folds
<1>2. s # {} => Chosen(s) \in s
  BY DEF Chosen
<1> QED BY <1>1, <1>2

(* Solutions over two domains agree where their terms do.                  *)
LEMMA FoldsAgree ==
    ASSUME NEW S, NEW R, IsFiniteSet(S), R \subseteq S, NEW g, NEW h,
           \A x \in R : g[x] = h[x],
           NEW i, Folds(i, g, S), NEW j, Folds(j, h, R)
    PROVE  \A s \in SUBSET R : i[s] = j[s]
<1> DEFINE Q == {s \in SUBSET R : i[s] = j[s]}
<1>1. ASSUME NEW s \in SUBSET R, \A x \in s : s \ {x} \in Q PROVE s \in Q
  <2>0. s \in SUBSET S /\ s \in SUBSET R
    OBVIOUS
  <2>1. CASE s = {}
    <3>1. i[s] = 0 /\ j[s] = 0
      BY <2>0, <2>1, FoldsBody
    <3> QED BY <3>1
  <2>2. CASE s # {}
    <3>1. Chosen(s) \in s /\ s \in SUBSET S
      BY <2>0, <2>2, FoldsBody
    <3>2. i[s \ {Chosen(s)}] = j[s \ {Chosen(s)}] /\ g[Chosen(s)] = h[Chosen(s)]
      BY <1>1, <3>1
    <3>3. i[s] = g[Chosen(s)] + i[s \ {Chosen(s)}] /\ j[s] = h[Chosen(s)] + j[s \ {Chosen(s)}]
      BY <2>0, <2>2, <3>1, FoldsBody
    <3> QED BY <3>2, <3>3
  <2> QED BY <2>1, <2>2
<1>2. IsFiniteSet(R)
  BY FS_Subset
<1>3. \A s \in SUBSET R : s \in Q
  <2>1. Q \in SUBSET SUBSET R
    OBVIOUS
  <2> HIDE DEF Q
  <2> QED BY <1>1, <1>2, <2>1, SubsetInduction
<1> QED BY <1>3

(* Sums of numbers are numbers.                                            *)
LEMMA FoldsNat ==
    ASSUME NEW S, IsFiniteSet(S), NEW g, \A x \in S : g[x] \in Nat,
           NEW i, Folds(i, g, S)
    PROVE  \A s \in SUBSET S : i[s] \in Nat
<1> DEFINE Q == {s \in SUBSET S : i[s] \in Nat}
<1>1. ASSUME NEW s \in SUBSET S, \A x \in s : s \ {x} \in Q PROVE s \in Q
  <2>1. CASE s = {}
    <3>1. i[s] = 0
      BY <2>1, FoldsBody
    <3> QED BY <3>1
  <2>2. CASE s # {}
    <3>1. Chosen(s) \in s /\ i[s] = g[Chosen(s)] + i[s \ {Chosen(s)}]
      BY <2>2, FoldsBody
    <3>2. g[Chosen(s)] \in Nat /\ i[s \ {Chosen(s)}] \in Nat
      BY <1>1, <3>1
    <3> QED BY <3>1, <3>2
  <2> QED BY <2>1, <2>2
<1>2. \A s \in SUBSET S : s \in Q
  <2>1. Q \in SUBSET SUBSET S
    OBVIOUS
  <2> HIDE DEF Q
  <2> QED BY <1>1, <2>1, SubsetInduction
<1> QED BY <1>2

(* Any element may be taken out first, not the chosen one alone.           *)
LEMMA FoldsRemove ==
    ASSUME NEW S, IsFiniteSet(S), NEW g, \A x \in S : g[x] \in Nat,
           NEW i, Folds(i, g, S)
    PROVE  \A s \in SUBSET S : \A x \in s : i[s] = g[x] + i[s \ {x}]
<1> DEFINE Q == {s \in SUBSET S : \A x \in s : i[s] = g[x] + i[s \ {x}]}
<1>1. ASSUME NEW s \in SUBSET S, \A x \in s : s \ {x} \in Q PROVE s \in Q
  <2> SUFFICES ASSUME NEW x \in s PROVE i[s] = g[x] + i[s \ {x}]
    OBVIOUS
  <2> DEFINE c == Chosen(s)
  <2>1. c \in s /\ i[s] = g[c] + i[s \ {c}]
    BY FoldsBody
  <2>2. CASE x = c
    BY <2>1, <2>2
  <2>3. CASE x # c
    <3>1. x \in s \ {c} /\ c \in s \ {x} /\ (s \ {c}) \ {x} = (s \ {x}) \ {c}
      BY <2>1, <2>3
    <3>2. i[s \ {c}] = g[x] + i[(s \ {c}) \ {x}]
      BY <1>1, <2>1, <3>1
    <3>3. i[s \ {x}] = g[c] + i[(s \ {x}) \ {c}]
      BY <1>1, <2>1, <3>1
    <3>4. g[x] \in Nat /\ g[c] \in Nat /\ i[(s \ {c}) \ {x}] \in Nat
      BY <2>1, FoldsNat
    <3>5. i[s] = g[c] + (g[x] + i[(s \ {c}) \ {x}])
      BY <2>1, <3>2
    <3>6. i[s \ {x}] = g[c] + i[(s \ {c}) \ {x}]
      BY <3>1, <3>3
    <3> HIDE DEF c
    <3> QED BY <3>4, <3>5, <3>6
  <2> QED BY <2>2, <2>3
<1>2. \A s \in SUBSET S : s \in Q
  <2>1. Q \in SUBSET SUBSET S
    OBVIOUS
  <2> HIDE DEF Q
  <2> QED BY <1>1, <2>1, SubsetInduction
<1> QED BY <1>2

(* The three facts about sums the metrics need: an element taken out,      *)
(* terms that do not change, and terms that are all zero.                  *)
LEMMA SumRemove ==
    ASSUME NEW S, IsFiniteSet(S), NEW g, \A x \in S : g[x] \in Nat, NEW x \in S
    PROVE  Sum(g, S) = g[x] + Sum(g, S \ {x})
<1> DEFINE i == CHOOSE i : Folds(i, g, S)
           j == CHOOSE j : Folds(j, g, S \ {x})
<1>1. IsFiniteSet(S \ {x})
  BY FS_Subset
<1>2. Folds(i, g, S) /\ Sum(g, S) = i[S]
  BY FoldsIs
<1>3. Folds(j, g, S \ {x}) /\ Sum(g, S \ {x}) = j[S \ {x}]
  BY <1>1, FoldsIs
<1> HIDE DEF i, j
<1>4. i[S \ {x}] = j[S \ {x}]
  BY <1>2, <1>3, FoldsAgree
<1>5. i[S] = g[x] + i[S \ {x}]
  BY <1>2, FoldsRemove
<1> QED BY <1>2, <1>3, <1>4, <1>5

LEMMA SumSame ==
    ASSUME NEW S, IsFiniteSet(S), NEW g, NEW h, \A x \in S : g[x] = h[x]
    PROVE  Sum(g, S) = Sum(h, S)
<1> DEFINE i == CHOOSE i : Folds(i, g, S)
           j == CHOOSE j : Folds(j, h, S)
<1>1. Folds(i, g, S) /\ Sum(g, S) = i[S] /\ Folds(j, h, S) /\ Sum(h, S) = j[S]
  BY FoldsIs
<1> HIDE DEF i, j
<1>2. \A s \in SUBSET S : i[s] = j[s]
  <2>1. S \subseteq S
    OBVIOUS
  <2> QED BY <1>1, <2>1, FoldsAgree
<1> QED BY <1>1, <1>2

LEMMA SumNat ==
    ASSUME NEW S, IsFiniteSet(S), NEW g, \A x \in S : g[x] \in Nat
    PROVE  Sum(g, S) \in Nat
<1> DEFINE i == CHOOSE i : Folds(i, g, S)
<1>1. Folds(i, g, S) /\ Sum(g, S) = i[S]
  BY FoldsIs
<1> HIDE DEF i
<1> QED BY <1>1, FoldsNat

LEMMA SumZero ==
    ASSUME NEW S, IsFiniteSet(S), NEW g, \A x \in S : g[x] = 0
    PROVE  Sum(g, S) = 0
<1> DEFINE i == CHOOSE i : Folds(i, g, S)
<1>1. Folds(i, g, S) /\ Sum(g, S) = i[S]
  BY FoldsIs
<1> HIDE DEF i
<1> DEFINE Q == {s \in SUBSET S : i[s] = 0}
<1>2. ASSUME NEW s \in SUBSET S, \A x \in s : s \ {x} \in Q PROVE s \in Q
  <2>1. CASE s = {}
    <3>1. i[s] = 0
      BY <1>1, <2>1, FoldsBody
    <3> QED BY <3>1
  <2>2. CASE s # {}
    <3>1. Chosen(s) \in s /\ i[s] = g[Chosen(s)] + i[s \ {Chosen(s)}]
      BY <1>1, <2>2, FoldsBody
    <3>2. g[Chosen(s)] = 0 /\ i[s \ {Chosen(s)}] = 0
      BY <1>2, <3>1
    <3> QED BY <3>1, <3>2
  <2> QED BY <2>1, <2>2
<1>3. \A s \in SUBSET S : s \in Q
  <2>1. Q \in SUBSET SUBSET S
    OBVIOUS
  <2> HIDE DEF Q
  <2> QED BY <1>2, <2>1, SubsetInduction
<1> QED BY <1>1, <1>3

-----------------------------------------------------------------------------
(* The inductive invariant, in parts.                                       *)

SubAgent == Thread \ {Root}

(* Calls are born in order.                                                 *)
Born ==
    \E n \in 0 .. MaxCalls : \A c \in Call : kind[c] # "unborn" <=> c <= n

(* A message's calls are born with it and belong to one thread; what is not *)
(* born was neither run nor answered.                                       *)
Messages ==
    /\ \A t \in Thread : \A c \in asked[t] :
          kind[c] # "unborn" /\ (t # Root => kind[c] # "spawn")
    /\ \A t, u \in Thread : t # u => asked[t] \cap asked[u] = {}
    /\ \A c \in Call : kind[c] = "unborn" => ran[c] = 0 /\ responses[c] = 0

(* The snapshot, the map and the generators.                                *)
Threaded ==
    /\ Root \in threads
    /\ turn # "none" => threads \subseteq live
    /\ turn = "none" => live = {}
    /\ \A t \in Thread : pc[t] # "out" => turn = "running"
    /\ \A t \in Thread : pc[t] \notin {"out", "exit"} => t \in live
    /\ \A t \in Thread : pc[t] = "removed" => t \notin threads

(* A thread that was never created is nowhere.                              *)
Unmade ==
    \A t \in SubAgent : madeBy[t] = 0 =>
        /\ t \notin threads /\ t \notin live
        /\ pc[t] = "out" /\ asked[t] = {} /\ iterations[t] = 0

(* The main thread and its sub-agents never run in one round.               *)
Rounds ==
    /\ pc[Root] \notin {"answered", "removed"}
    /\ pc[Root] = "out" \/ (\A t \in SubAgent : pc[t] = "out")
    /\ pc[Root] \notin {"out", "exit", "spawn"} => live = {Root}
    /\ \A t \in SubAgent : pc[t] # "spawn"

(* Sub-agents and the calls that created them.                              *)
Children ==
    /\ \A t \in SubAgent : madeBy[t] # 0 => kind[madeBy[t]] = "spawn"
    /\ \A t \in SubAgent : madeBy[t] \in Open(Root) => t \in threads
    /\ \A t \in SubAgent :
          pc[t] \in {"answered", "removed"} => madeBy[t] \notin Open(Root)

(* Creations a parent has still to yield.                                   *)
Creations ==
    pc[Root] = "spawn" =>
        /\ spawns \subseteq {c \in Open(Root) : kind[c] = "spawn"}
        /\ \A t \in SubAgent : madeBy[t] \notin spawns

(* What dangles is closed before a thread works on.                         *)
Closing ==
    \A t \in Thread :
        /\ t \in presend =>
              Closable(t) = {} /\ pc[t] \notin {"top", "llm", "exec", "spawn"}
        /\ pc[t] = "top" => \A c \in Closable(t) : ran[c] = 0

(* The main thread waits for the user only when no sub-agent works.         *)
Waiting ==
    /\ turn = "running" /\ Awaits(Root) # {} =>
          stop \/ pc[Root] \in {"top", "failed"}
    /\ (\E t \in SubAgent : pc[t] # "out") => Awaits(Root) = {}

(* While the turn runs, a thread that waits has said so, is about to, or    *)
(* was cut off.                                                             *)
Announcing ==
    turn = "running" =>
        \A t \in threads : Awaits(t) = {} \/ t \in announced \cup cut \/ pc[t] = "top"

IInv == /\ TypeOK /\ Born /\ Messages /\ Threaded /\ Unmade /\ Rounds
        /\ Children /\ Creations /\ Closing /\ Waiting
        /\ AnsweredOnce /\ OneSubAgentPerCall /\ PlainRunsOnce
-----------------------------------------------------------------------------
(* What every operator and action leaves alone.                             *)

LEMMA RootIsThread == Root \in Thread
  BY AgentAssumption DEF Root, Thread

(* The bounds, one by one.                                                 *)
LEMMA AgentBounds ==
    /\ IterationLimit \in Nat /\ MaxCalls \in Nat /\ MaxThreads \in Nat
    /\ IterationLimit # 0 /\ MaxThreads # 0
  BY AgentAssumption

(* Which actions change the stored variables.                              *)
LEMMA Changes ==
    ASSUME [Next]_vars
    PROVE  /\ \/ kind' = kind /\ asked' = asked /\ completed' = completed
              \/ \E t \in Thread : ModelAnswers(t)
           /\ threads' = threads \/ Spawn \/ \E t \in Thread : Remove(t)
           /\ madeBy' = madeBy \/ Spawn
           /\ \/ responses' = responses
              \/ \E user \in BOOLEAN, R \in SUBSET Call : Begin(user, R)
              \/ \E t \in Thread : Start(t) \/ Respond(t) \/ AnswerParent(t)
           /\ ran' = ran \/ \E t \in Thread : Execute(t)
<1>1. ASSUME NEW user \in BOOLEAN, NEW R \in SUBSET Call, Begin(user, R)
      PROVE  UNCHANGED <<threads, madeBy, kind, asked, completed, ran>>
  BY <1>1 DEF Begin
<1>2. ASSUME NEW t \in Thread, Start(t) \/ Respond(t) \/ AnswerParent(t)
      PROVE  UNCHANGED <<threads, madeBy, kind, asked, completed, ran>>
  BY <1>2 DEF Start, Respond, AnswerParent
<1>3. ASSUME NEW t \in Thread,
             CallModel(t) \/ ModelAborted(t) \/ Ask(t) \/ Fold(t) \/ StepFails(t)
      PROVE  UNCHANGED <<stored, ran>>
  BY <1>3 DEF CallModel, ModelAborted, Ask, Fold, StepFails
<1>4. ASSUME NextRound \/ NextBatch \/ RootDone \/ Settle \/ Abort \/ Interrupt
      PROVE  UNCHANGED <<stored, ran>>
  BY <1>4 DEF NextRound, NextBatch, RootDone, Settle, Abort, Interrupt
<1>5. ASSUME NEW t \in Thread, ModelAnswers(t)
      PROVE  UNCHANGED <<threads, madeBy, responses, ran>>
  BY <1>5 DEF ModelAnswers
<1>6. ASSUME NEW t \in Thread, Execute(t) PROVE UNCHANGED stored
  BY <1>6 DEF Execute
<1>7. ASSUME NEW t \in Thread, Remove(t)
      PROVE  UNCHANGED <<madeBy, kind, asked, responses, completed, ran>>
  BY <1>7 DEF Remove
<1>8. CASE Spawn
  <2>1. UNCHANGED <<kind, asked, responses, completed, ran>>
    BY <1>8 DEF Spawn
  <2> QED BY <1>8, <2>1
<1>9. CASE UNCHANGED vars
  BY <1>9 DEF vars, stored
<1> USE DEF stored
<1> QED
  BY <1>1, <1>2, <1>3, <1>4, <1>5, <1>6, <1>7, <1>8, <1>9
     DEF Next, Step, Orchestrate
(* The first of the creations is one of them.                              *)
LEMMA MinIsIn ==
    ASSUME NEW S \in SUBSET Nat, S # {}
    PROVE  Min(S) \in S
  BY LeastNat DEF Min

(* Operators and types.                                                    *)
LEMMA OpenTyped ==
    ASSUME TypeOK, NEW t \in Thread
    PROVE  /\ Open(t) \subseteq asked[t] /\ asked[t] \subseteq Call
           /\ Closable(t) \subseteq Open(t) /\ Awaits(t) \subseteq Open(t)
  BY DEF TypeOK, Open, Closable, Awaits, AwaitsApproval, AwaitsClient

LEMMA AnswerTyped ==
    ASSUME TypeOK, NEW C, Answer(C)
    PROVE  responses' \in [Call -> Nat]
  BY DEF TypeOK, Answer

(* The initial state satisfies every part.                                 *)
LEMMA InitIsSound ==
    ASSUME Init
    PROVE  IInv /\ Announcing /\ WaitingIsAnnounced
<1> USE RootIsThread, AgentAssumption
<1>1. TypeOK
  <2>1. 0 \in 0 .. IterationLimit
    BY AgentBounds
  <2> QED BY <2>1 DEF Init, TypeOK, Running
<1>2. Born
  BY DEF Init, Born, Call
<1>3. Messages /\ Threaded /\ Unmade /\ Rounds
  BY DEF Init, Messages, Threaded, Unmade, Rounds, SubAgent
<1>4. Children /\ Creations /\ Closing /\ Waiting
  BY DEF Init, Children, Creations, Closing, Waiting, SubAgent, Open, Closable, Awaits,
         AwaitsApproval, AwaitsClient
<1>5. AnsweredOnce /\ OneSubAgentPerCall /\ PlainRunsOnce
  BY DEF Init, AnsweredOnce, OneSubAgentPerCall, PlainRunsOnce
<1>6. Announcing /\ WaitingIsAnnounced
  BY DEF Init, Announcing, WaitingIsAnnounced
<1> QED BY <1>1, <1>2, <1>3, <1>4, <1>5, <1>6 DEF IInv
(* Types.  TypeOK is inductive. *)
LEMMA TypeStep ==
    ASSUME TypeOK, [Next]_vars PROVE TypeOK'
<1>1. ASSUME NEW user \in BOOLEAN, NEW R \in SUBSET Call, Begin(user, R) PROVE TypeOK'
  <2>1. responses' \in [Call -> Nat]
    BY <1>1, AnswerTyped DEF Begin
  <2>2. presend' \in SUBSET Thread /\ decided' \in SUBSET Call
    BY <1>1, RootIsThread, OpenTyped DEF TypeOK, Begin, AwaitsApproval, Open
  <2>3. /\ pc' \in [Thread -> Running \cup {"out", "queued", "done", "failed",
                                           "answered", "removed", "exit"}]
        /\ iterations' \in [Thread -> 0 .. IterationLimit]
    BY <1>1, AgentBounds DEF Begin
  <2>4. /\ threads' \in SUBSET Thread /\ live' \in SUBSET Thread
        /\ spawns' \in SUBSET Call /\ announced' \in SUBSET Thread
    BY <1>1 DEF TypeOK, Begin
  <2>6. stop' \in BOOLEAN /\ aborted' \in BOOLEAN
    BY <1>1 DEF Begin
  <2>7. /\ turns' \in Nat /\ faults' \in Nat /\ folded' \in Nat /\ made' \in Nat
        /\ turn' = "running" /\ cut' = {}
    BY <1>1 DEF TypeOK, Begin
  <2>5. UNCHANGED <<madeBy, kind, asked, completed, ran>>
    BY <1>1 DEF Begin
  <2> QED BY <2>1, <2>2, <2>3, <2>4, <2>5, <2>6, <2>7 DEF TypeOK
<1>2. ASSUME NEW t \in Thread, Start(t) PROVE TypeOK'
  <2>1. responses' \in [Call -> Nat]
    BY <1>2, AnswerTyped DEF Start, TypeOK
  <2>2. \E there \in {"done", "top", "exit"} : pc' = [pc EXCEPT ![t] = there]
    BY <1>2 DEF Start, Goto
  <2>3. pc' \in [Thread -> Running \cup {"out", "queued", "done", "failed",
                                        "answered", "removed", "exit"}]
    BY <2>2 DEF TypeOK, Running
  <2>4. presend' \in SUBSET Thread
    BY <1>2 DEF TypeOK, Start
  <2>6. stop' \in BOOLEAN
    <3>1. stop' = stop \/ stop' = TRUE
      BY <1>2 DEF Start
    <3> QED BY <3>1 DEF TypeOK
  <2>7. faults' \in Nat
    <3>1. faults' = faults \/ Fault
      BY <1>2 DEF Start
    <3> QED BY <3>1 DEF TypeOK, Fault
  <2>5. UNCHANGED <<threads, madeBy, kind, asked, decided, completed, turn, live,
                    spawns, aborted, announced, iterations, folded, cut, made, ran, turns>>
    BY <1>2 DEF Start
  <2> QED BY <2>1, <2>3, <2>4, <2>5, <2>6, <2>7 DEF TypeOK
<1>3. ASSUME NEW t \in Thread, CallModel(t) PROVE TypeOK'
  <2>1. iterations' \in [Thread -> 0 .. IterationLimit] /\ made' \in Nat
    BY <1>3, AgentAssumption DEF TypeOK, CallModel
  <2> QED BY <1>3, <2>1 DEF TypeOK, Running, CallModel, Goto, stored
<1>4. ASSUME NEW t \in Thread, ModelAnswers(t) PROVE TypeOK'
  <2>1. kind' \in [Call -> Kind \cup {"unborn"}]
    BY <1>4 DEF TypeOK, ModelAnswers
  <2>2. asked' \in [Thread -> SUBSET Call] /\ completed' \in SUBSET Thread
    BY <1>4 DEF TypeOK, ModelAnswers
  <2>3. pc' \in [Thread -> Running \cup {"out", "queued", "done", "failed",
                                        "answered", "removed", "exit"}]
    BY <1>4 DEF TypeOK, ModelAnswers, Goto, Running
  <2> QED BY <1>4, <2>1, <2>2, <2>3 DEF TypeOK, ModelAnswers
<1>5. ASSUME NEW t \in Thread, ModelAborted(t) PROVE TypeOK'
  BY <1>5 DEF TypeOK, Running, ModelAborted, Goto, stored, Fault
<1>6. ASSUME NEW t \in Thread, Ask(t) PROVE TypeOK'
  BY <1>6 DEF TypeOK, Running, Ask, Goto, stored, Fault
<1>7. ASSUME NEW t \in Thread, Execute(t) PROVE TypeOK'
  BY <1>7 DEF TypeOK, Running, Execute, Goto, stored, Fault
<1>8. ASSUME NEW t \in Thread, Respond(t) PROVE TypeOK'
  <2>1. responses' \in [Call -> Nat]
    BY <1>8, AnswerTyped DEF Respond
  <2>2. spawns' \in SUBSET Call
    BY <1>8, OpenTyped DEF Respond, TypeOK
  <2>3. \E there \in {"top", "spawn", "exit"} : pc' = [pc EXCEPT ![t] = there]
    BY <1>8 DEF Respond, Goto
  <2>4. pc' \in [Thread -> Running \cup {"out", "queued", "done", "failed",
                                        "answered", "removed", "exit"}]
    BY <2>3 DEF TypeOK, Running
  <2>5. stop' \in BOOLEAN
    <3>1. stop' = stop \/ stop' = TRUE
      BY <1>8 DEF Respond
    <3> QED BY <3>1 DEF TypeOK
  <2>7. faults' \in Nat
    <3>1. faults' = faults \/ Fault
      BY <1>8 DEF Respond
    <3> QED BY <3>1 DEF TypeOK, Fault
  <2>6. UNCHANGED <<threads, madeBy, kind, asked, decided, completed, turn, live,
                    presend, aborted, announced, iterations, folded, cut, made, ran,
                    turns>>
    BY <1>8 DEF Respond
  <2> QED BY <2>1, <2>2, <2>4, <2>5, <2>6, <2>7 DEF TypeOK
<1>9. ASSUME NEW t \in Thread, AnswerParent(t) PROVE TypeOK'
  <2>1. responses' \in [Call -> Nat]
    BY <1>9, AnswerTyped DEF AnswerParent, TypeOK
  <2> QED BY <1>9, <2>1, RootIsThread DEF TypeOK, Running, AnswerParent, Goto
<1>10. ASSUME NEW t \in Thread, Remove(t) PROVE TypeOK'
  BY <1>10 DEF TypeOK, Running, Remove, Goto, stored, Fault
<1>11. ASSUME NEW t \in Thread, Fold(t) PROVE TypeOK'
  <2>1. folded' \in Nat
    BY <1>11, AgentAssumption DEF TypeOK, Fold
  <2> QED BY <1>11, <2>1 DEF TypeOK, Running, Fold, Goto, stored
<1>12. ASSUME NEW t \in Thread, StepFails(t) PROVE TypeOK'
  BY <1>12 DEF TypeOK, Running, StepFails, Goto, stored, Fault
<1>13. CASE NextRound
  BY <1>13 DEF TypeOK, Running, NextRound, Goto, stored, Fault
<1>14. CASE NextBatch
  BY <1>14 DEF TypeOK, Running, NextBatch, Goto, stored, Fault
<1>15. CASE Spawn
  <2>1. PICK t \in Thread :
          /\ spawns # {}
          /\ threads' = threads \cup {t} /\ live' = live \cup {t}
          /\ madeBy' = [madeBy EXCEPT ![t] = Min(spawns)]
          /\ spawns' = spawns \ {Min(spawns)}
          /\ Goto(Root, IF spawns' = {} THEN "exit" ELSE "spawn")
          /\ UNCHANGED <<kind, asked, responses, decided, completed, turn, presend,
                         stop, aborted, announced, iterations, folded, cut, made, ran,
                         turns, faults>>
    BY <1>15 DEF Spawn
  <2>2. Min(spawns) \in Call
    <3>1. spawns \in SUBSET Nat /\ spawns \in SUBSET Call
      BY DEF TypeOK, Call
    <3> QED BY <2>1, <3>1, MinIsIn
  <2> QED BY <2>1, <2>2 DEF TypeOK, Running, Goto
<1>16. CASE RootDone
  BY <1>16 DEF TypeOK, Running, RootDone, Goto, stored, Fault
<1>17. CASE Settle
  BY <1>17 DEF TypeOK, Running, Settle, Goto, stored, Fault
<1>18. CASE Abort
  BY <1>18 DEF TypeOK, Running, Abort, Goto, stored, Fault
<1>19. CASE Interrupt
  BY <1>19 DEF TypeOK, Running, Interrupt, Goto, stored, Fault
<1>20. CASE UNCHANGED vars
  BY <1>20 DEF TypeOK, vars, stored, memory
<1> QED
  BY <1>1, <1>2, <1>3, <1>4, <1>5, <1>6, <1>7, <1>8, <1>9, <1>10, <1>11, <1>12,
     <1>13, <1>14, <1>15, <1>16, <1>17, <1>18, <1>19, <1>20
     DEF Next, Step, Orchestrate
-----------------------------------------------------------------------------
(* What a step does to calls.                                               *)

(* A message's calls are new ones.                                          *)
LEMMA NewCalls ==
    ASSUME TypeOK, Born, NEW t \in Thread, ModelAnswers(t)
    PROVE  /\ \E K \in SUBSET Call :
                 /\ \A c \in K : /\ kind[c] = "unborn" /\ kind'[c] # "unborn"
                                 /\ t # Root => kind'[c] # "spawn"
                 /\ \A c \in Call \ K : kind'[c] = kind[c]
                 /\ asked' = [asked EXCEPT ![t] = K]
                 /\ \E there \in {"failed", "done", "top"} :
                       /\ pc' = [pc EXCEPT ![t] = there]
                       /\ K # {} => there # "done"
                       /\ K # {} => there = "top" \/ t \in cut'
           /\ pc[t] = "llm"
           /\ Born'
<1> DEFINE born == {c \in Call : kind[c] # "unborn"}
<1>1. PICK m \in 0 .. MaxCalls : \A c \in Call : kind[c] # "unborn" <=> c <= m
  BY DEF Born
<1>2. m \in Nat /\ MaxCalls \in Nat /\ m <= MaxCalls
  BY <1>1, AgentBounds
<1>3. born = 1 .. m
  BY <1>1, <1>2 DEF Call
<1>4. Cardinality(born) = m
  <2>1. Cardinality(1 .. m) = m
    BY <1>2, FS_Interval
  <2> QED BY <1>3, <2>1
<1> HIDE DEF born
<1>5. PICK n \in 0 .. MaxPerMessage, long \in BOOLEAN :
          LET K == (Cardinality(born) + 1) .. (Cardinality(born) + n)
          IN  /\ pc[t] = "llm"
              /\ K \subseteq Call
              /\ \E k \in [K -> IF t = Root THEN Kind ELSE Kind \ {"spawn"}] :
                    kind' = [c \in Call |-> IF c \in K THEN k[c] ELSE kind[c]]
              /\ asked' = [asked EXCEPT ![t] = K]
              /\ pc' = [pc EXCEPT ![t] = CASE long -> "failed"
                                           [] ~long /\ n = 0 -> "done"
                                           [] OTHER -> "top"]
              /\ cut' = IF long THEN cut \cup {t} ELSE cut
  BY DEF ModelAnswers, Goto, born
<1> DEFINE K == (m + 1) .. (m + n)
<1>6. n \in Nat
  BY <1>5, AgentAssumption
<1>7. /\ K \subseteq Call
      /\ \E k \in [K -> IF t = Root THEN Kind ELSE Kind \ {"spawn"}] :
            kind' = [c \in Call |-> IF c \in K THEN k[c] ELSE kind[c]]
      /\ asked' = [asked EXCEPT ![t] = K]
  BY <1>4, <1>5
<1>8. K # {} => n # 0
  BY <1>2, <1>6
<1>9. \A c \in K : kind[c] = "unborn"
  BY <1>1, <1>2, <1>6, <1>7 DEF Call
<1>10. PICK k \in [K -> IF t = Root THEN Kind ELSE Kind \ {"spawn"}] :
            kind' = [c \in Call |-> IF c \in K THEN k[c] ELSE kind[c]]
  BY <1>7
<1>11. \A c \in K : c \in Call /\ kind'[c] = k[c]
                    /\ k[c] \in (IF t = Root THEN Kind ELSE Kind \ {"spawn"})
  <2> HIDE DEF K
  <2> QED BY <1>7, <1>10
<1>12. \A c \in K : kind'[c] # "unborn" /\ (t # Root => kind'[c] # "spawn")
  <2> HIDE DEF K
  <2>1. "unborn" \notin Kind
    BY AgentAssumption
  <2> QED BY <1>11, <2>1
<1>13. \A c \in Call \ K : kind'[c] = kind[c]
  <2> HIDE DEF K
  <2> QED BY <1>10
<1>14. \E there \in {"failed", "done", "top"} :
          /\ pc' = [pc EXCEPT ![t] = there]
          /\ K # {} => there # "done"
          /\ K # {} => there = "top" \/ t \in cut'
  <2> HIDE DEF K
  <2>1. CASE long
    <3>1. t \in cut'
      BY <1>5, <2>1
    <3>2. pc' = [pc EXCEPT ![t] = "failed"]
      BY <1>5, <2>1
    <3> QED BY <3>1, <3>2
  <2>2. CASE ~long /\ n = 0
    <3>1. pc' = [pc EXCEPT ![t] = "done"]
      BY <1>5, <2>2
    <3> QED BY <1>8, <2>2, <3>1
  <2>3. CASE ~long /\ n # 0
    <3>1. pc' = [pc EXCEPT ![t] = "top"]
      BY <1>5, <2>3
    <3> QED BY <3>1
  <2> QED BY <2>1, <2>2, <2>3
<1>15. Born'
  <2>1. CASE n = 0
    <3>1. \A c \in Call : kind'[c] = kind[c]
      BY <1>2, <1>13, <2>1
    <3>2. \A c \in Call : kind'[c] # "unborn" <=> c <= m
      BY <1>1, <3>1
    <3> QED BY <3>2 DEF Born
  <2>2. CASE n # 0
    <3>1. m + n \in 0 .. MaxCalls
      <4>1. m + n \in K
        BY <1>2, <1>6, <2>2
      <4> QED BY <1>2, <1>6, <1>7, <4>1 DEF Call
    <3>2. ASSUME NEW c \in Call PROVE kind'[c] # "unborn" <=> c <= m + n
      <4>1. c \in Nat /\ c >= 1
        BY DEF Call
      <4>2. CASE c \in K
        BY <1>2, <1>6, <1>12, <4>1, <4>2
      <4>3. CASE c \notin K
        <5>1. kind'[c] = kind[c]
          BY <1>13, <4>3
        <5>2. c <= m <=> c <= m + n
          BY <1>2, <1>6, <4>1, <4>3
        <5> QED BY <1>1, <5>1, <5>2
      <4> QED BY <4>2, <4>3
    <3> QED BY <3>1, <3>2 DEF Born
  <2> QED BY <2>1, <2>2
<1> HIDE DEF K
<1> QED BY <1>5, <1>7, <1>9, <1>12, <1>13, <1>14, <1>15

(* Only open calls are answered.                                            *)
LEMMA AnswersOpen ==
    ASSUME TypeOK, [Next]_vars, NEW c \in Call
    PROVE  \/ responses'[c] = responses[c]
           \/ /\ responses[c] = 0 /\ responses'[c] = 1
              /\ \E t \in Thread : c \in asked[t]
<1>1. ASSUME NEW C, Answer(C), \A d \in C : \E t \in Thread : d \in Open(t)
      PROVE  \/ responses'[c] = responses[c]
             \/ /\ responses[c] = 0 /\ responses'[c] = 1
                /\ \E t \in Thread : c \in asked[t]
  <2>1. CASE c \in C
    <3>1. responses[c] = 0 /\ \E t \in Thread : c \in asked[t]
      BY <1>1, <2>1 DEF Open
    <3>2. responses'[c] = responses[c] + 1
      BY <1>1, <2>1 DEF Answer
    <3> QED BY <3>1, <3>2
  <2>2. CASE c \notin C
    BY <1>1, <2>2 DEF Answer
  <2> QED BY <2>1, <2>2
<1>2. ASSUME NEW user \in BOOLEAN, NEW R \in SUBSET Call, Begin(user, R)
      PROVE  \E C : Answer(C) /\ \A d \in C : \E t \in Thread : d \in Open(t)
  <2> DEFINE sent == IF user THEN {Root}
                     ELSE {t \in threads : Open(t)
                             \cap (R \cup UNION {AwaitsApproval(u) : u \in threads}) # {}}
             closed == UNION {Closable(t) : t \in sent}
  <2>1. Answer(R \cup closed)
    BY <1>2 DEF Begin
  <2>2. sent \subseteq Thread /\ threads \subseteq Thread
    BY RootIsThread DEF TypeOK
  <2>3. \A d \in R : \E t \in Thread : d \in Open(t)
    BY <1>2, <2>2 DEF Begin
  <2>4. \A d \in closed : \E t \in Thread : d \in Open(t)
    <3> HIDE DEF sent
    <3> QED BY <2>2, OpenTyped
  <2> QED BY <2>1, <2>3, <2>4
<1>3. ASSUME NEW t \in Thread, Start(t)
      PROVE  responses' = responses \/ Answer(Closable(t))
  BY <1>3 DEF Start
<1>4. ASSUME NEW t \in Thread, Respond(t)
      PROVE  Answer(Open(t) \ {d \in Open(t) : kind[d] = "spawn"})
  BY <1>4 DEF Respond
<1>5. ASSUME NEW t \in Thread, AnswerParent(t)
      PROVE  \/ responses' = responses
             \/ madeBy[t] \in Open(Root) /\ Answer({madeBy[t]} \cup Closable(Root))
  BY <1>5 DEF AnswerParent
<1>6. CASE responses' = responses
  BY <1>6
<1>7. ASSUME NEW t \in Thread, Start(t) \/ Respond(t) \/ AnswerParent(t),
             responses' # responses
      PROVE  \E C : Answer(C) /\ \A d \in C : \E u \in Thread : d \in Open(u)
  <2>1. CASE Start(t)
    BY <1>3, <1>7, <2>1, OpenTyped
  <2>2. CASE Respond(t)
    BY <1>4, <2>2
  <2>3. CASE AnswerParent(t)
    <3>1. madeBy[t] \in Open(Root) /\ Answer({madeBy[t]} \cup Closable(Root))
      BY <1>5, <1>7, <2>3
    <3>2. \A d \in {madeBy[t]} \cup Closable(Root) : d \in Open(Root)
      BY <3>1, OpenTyped, RootIsThread
    <3> QED BY <3>1, <3>2, RootIsThread
  <2> QED BY <1>7, <2>1, <2>2, <2>3
<1>8. CASE responses' # responses
  <2>1. \E C : Answer(C) /\ \A d \in C : \E u \in Thread : d \in Open(u)
    BY <1>2, <1>7, <1>8, Changes
  <2> QED BY <1>1, <2>1
<1> QED BY <1>6, <1>8

(* Only open calls run, of a thread that waits for nobody.                  *)
LEMMA RunsOpen ==
    ASSUME TypeOK, [Next]_vars, NEW c \in Call
    PROVE  \/ ran'[c] = ran[c]
           \/ /\ ran'[c] = ran[c] + 1
              /\ \E t \in Thread : pc[t] = "top" /\ c \in Open(t) /\ Execute(t)
<1>1. CASE ran' = ran
  BY <1>1
<1>2. ASSUME NEW t \in Thread, Execute(t)
      PROVE  ran' = ran \/ /\ pc[t] = "top"
                           /\ ran' = [d \in Call |-> IF d \in Open(t) THEN ran[d] + 1
                                                     ELSE ran[d]]
  BY <1>2 DEF Execute
<1> QED BY <1>1, <1>2, Changes

(* Other threads' messages stay, and of a thread's calls fewer are open.    *)
LEMMA MessageStays ==
    ASSUME TypeOK, Born, Messages, [Next]_vars, NEW t \in Thread, ~ModelAnswers(t)
    PROVE  /\ asked'[t] = asked[t]
           /\ \A c \in asked[t] : kind'[c] = kind[c]
<1>1. CASE UNCHANGED <<kind, asked>>
  BY <1>1
<1>2. ASSUME NEW u \in Thread, ModelAnswers(u)
      PROVE  asked'[t] = asked[t] /\ \A c \in asked[t] : kind'[c] = kind[c]
  <2>1. u # t
    BY <1>2
  <2>2. PICK K \in SUBSET Call :
            /\ \A c \in K : kind[c] = "unborn"
            /\ \A c \in Call \ K : kind'[c] = kind[c]
            /\ asked' = [asked EXCEPT ![u] = K]
    BY <1>2, NewCalls
  <2>3. asked'[t] = asked[t]
    BY <2>1, <2>2 DEF TypeOK
  <2>4. \A c \in asked[t] : c \in Call /\ kind[c] # "unborn"
    BY OpenTyped DEF Messages
  <2> QED BY <2>2, <2>3, <2>4
<1> QED BY <1>1, <1>2, Changes

(* No decision is taken back.                                              *)
LEMMA DecidedStays ==
    ASSUME TypeOK, [Next]_vars PROVE decided \subseteq decided'
<1>1. ASSUME NEW user \in BOOLEAN, NEW R \in SUBSET Call, Begin(user, R)
      PROVE  decided \subseteq decided'
  BY <1>1 DEF Begin
<1>2. ASSUME NEW t \in Thread, Step(t) \/ StepFails(t) PROVE decided' = decided
  BY <1>2 DEF Step, Start, CallModel, ModelAnswers, ModelAborted, Ask, Execute, Respond,
              AnswerParent, Remove, Fold, StepFails, stored
<1>3. CASE Orchestrate \/ Abort \/ Interrupt \/ UNCHANGED vars
  BY <1>3 DEF Orchestrate, NextRound, NextBatch, Spawn, RootDone, Settle, Abort,
              Interrupt, vars, stored
<1> QED BY <1>1, <1>2, <1>3 DEF Next

(* Unless a thread gets a message, what is open in it only becomes less.   *)
LEMMA Shrinks ==
    ASSUME TypeOK, Born, Messages, [Next]_vars, NEW t \in Thread, ~ModelAnswers(t)
    PROVE  /\ Open(t)' \subseteq Open(t)
           /\ Closable(t)' \subseteq Closable(t)
           /\ Awaits(t)' \subseteq Awaits(t)
<1>1. asked'[t] = asked[t] /\ \A c \in asked[t] : kind'[c] = kind[c]
  BY MessageStays
<1>2. \A c \in asked[t] : responses'[c] = 0 => responses[c] = 0
  <2>1. ASSUME NEW c \in asked[t] PROVE responses'[c] = 0 => responses[c] = 0
    <3>1. c \in Call
      BY OpenTyped
    <3> QED BY <3>1, AnswersOpen
  <2> QED BY <2>1
<1>3. Open(t)' \subseteq Open(t)
  BY <1>1, <1>2 DEF Open
<1>4. Closable(t)' \subseteq Closable(t)
  <2>1. CASE \E c \in asked[t] : kind[c] \in {"approval", "client"}
    <3>1. Closable(t)' = {}
      BY <1>1, <2>1 DEF Closable
    <3> QED BY <3>1
  <2>2. CASE ~\E c \in asked[t] : kind[c] \in {"approval", "client"}
    <3>1. Closable(t) = {c \in Open(t) : kind[c] = "plain"}
      BY <2>2 DEF Closable
    <3>2. \A c \in Closable(t)' : c \in Open(t)' /\ kind'[c] = "plain"
      BY DEF Closable
    <3>3. Open(t) \subseteq asked[t]
      BY OpenTyped
    <3> QED BY <1>1, <1>3, <3>1, <3>2, <3>3
  <2> QED BY <2>1, <2>2
<1>5. Awaits(t)' \subseteq Awaits(t)
  BY <1>1, <1>3, DecidedStays, OpenTyped DEF Awaits, AwaitsApproval, AwaitsClient
<1> QED BY <1>3, <1>4, <1>5
-----------------------------------------------------------------------------
(* Calls: born in order, of one message each, answered and run as promised. *)

LEMMA BornStep ==
    ASSUME TypeOK, Born, [Next]_vars PROVE Born'
<1>1. ASSUME NEW t \in Thread, ModelAnswers(t) PROVE Born'
  BY <1>1, NewCalls
<1>2. CASE kind' = kind
  BY <1>2 DEF Born
<1> QED BY <1>1, <1>2, Changes

LEMMA MessagesStep ==
    ASSUME IInv, [Next]_vars PROVE Messages'
<1> USE DEF IInv
<1>1. ASSUME NEW t \in Thread, NEW c \in asked'[t]
      PROVE  kind'[c] # "unborn" /\ (t # Root => kind'[c] # "spawn")
  <2>1. CASE ModelAnswers(t)
    <3>1. PICK K \in SUBSET Call :
              /\ \A d \in K : kind'[d] # "unborn" /\ (t # Root => kind'[d] # "spawn")
              /\ asked' = [asked EXCEPT ![t] = K]
      BY <2>1, NewCalls
    <3>2. asked'[t] = K
      BY <3>1 DEF TypeOK
    <3> QED BY <3>1, <3>2
  <2>2. CASE ~ModelAnswers(t)
    BY <2>2, MessageStays DEF Messages
  <2> QED BY <2>1, <2>2
<1>2. ASSUME NEW t \in Thread, NEW u \in Thread, t # u
      PROVE  asked'[t] \cap asked'[u] = {}
  <2>1. ASSUME NEW v \in Thread, NEW w \in Thread, v # w, ModelAnswers(v)
        PROVE  asked'[v] \cap asked'[w] = {}
    <3>1. PICK K \in SUBSET Call :
              /\ \A d \in K : kind[d] = "unborn"
              /\ asked' = [asked EXCEPT ![v] = K]
      BY <2>1, NewCalls
    <3>2. asked'[v] = K /\ asked'[w] = asked[w]
      BY <2>1, <3>1 DEF TypeOK
    <3> QED BY <3>1, <3>2 DEF Messages
  <2>2. CASE ~ModelAnswers(t) /\ ~ModelAnswers(u)
    BY <1>2, <2>2, MessageStays DEF Messages
  <2> QED BY <1>2, <2>1, <2>2
<1>3. ASSUME NEW c \in Call, kind'[c] = "unborn" PROVE ran'[c] = 0 /\ responses'[c] = 0
  <2>1. kind[c] = "unborn"
    <3>1. ASSUME NEW t \in Thread, ModelAnswers(t) PROVE kind[c] = "unborn"
      <4>1. PICK K \in SUBSET Call :
                /\ \A d \in K : kind'[d] # "unborn"
                /\ \A d \in Call \ K : kind'[d] = kind[d]
        BY <3>1, NewCalls
      <4> QED BY <1>3, <4>1
    <3> QED BY <1>3, <3>1, Changes
  <2>2. \A t \in Thread : c \notin asked[t]
    BY <2>1 DEF Messages
  <2>3. responses'[c] = responses[c]
    BY <2>2, AnswersOpen
  <2>4. ran'[c] = ran[c]
    BY <2>2, RunsOpen DEF Open
  <2> QED BY <2>1, <2>3, <2>4 DEF Messages
<1> QED BY <1>1, <1>2, <1>3 DEF Messages

LEMMA AnsweredOnceStep ==
    ASSUME TypeOK, AnsweredOnce, [Next]_vars PROVE AnsweredOnce'
<1>1. ASSUME NEW c \in Call PROVE responses'[c] <= 1
  <2>1. responses[c] <= 1
    BY DEF AnsweredOnce
  <2> QED BY <2>1, AnswersOpen
<1> QED BY <1>1 DEF AnsweredOnce

LEMMA PlainRunsOnceStep ==
    ASSUME IInv, [Next]_vars PROVE PlainRunsOnce'
<1> USE DEF IInv
<1> SUFFICES ASSUME NEW t \in Thread, NEW c \in asked'[t], kind'[c] = "plain",
                    \A d \in asked'[t] : kind'[d] \notin {"approval", "client"}
             PROVE  ran'[c] <= 1
  BY DEF PlainRunsOnce
<1>1. CASE ModelAnswers(t)
  <2>1. PICK K \in SUBSET Call :
            /\ \A d \in K : kind[d] = "unborn"
            /\ asked' = [asked EXCEPT ![t] = K]
    BY <1>1, NewCalls
  <2>2. c \in Call /\ kind[c] = "unborn"
    BY <2>1 DEF TypeOK
  <2>3. ran[c] = 0 /\ ran' = ran
    BY <1>1, <2>2 DEF Messages, ModelAnswers
  <2> QED BY <2>3
<1>2. CASE ~ModelAnswers(t)
  <2>1. asked'[t] = asked[t] /\ \A d \in asked[t] : kind'[d] = kind[d]
    BY <1>2, MessageStays
  <2>2. c \in asked[t] /\ kind[c] = "plain" /\ c \in Call
    BY <2>1, OpenTyped
  <2>3. \A d \in asked[t] : kind[d] \notin {"approval", "client"}
    BY <2>1
  <2>4. CASE ran'[c] = ran[c]
    BY <2>2, <2>3, <2>4 DEF PlainRunsOnce
  <2>5. CASE ran'[c] # ran[c]
    <3>1. PICK u \in Thread : pc[u] = "top" /\ c \in Open(u) /\ ran'[c] = ran[c] + 1
      BY <2>2, <2>5, RunsOpen
    <3>2. u = t
      BY <2>2, <3>1, OpenTyped DEF Messages
    <3>3. c \in Closable(t)
      BY <2>2, <2>3, <3>1, <3>2 DEF Closable
    <3>4. ran[c] = 0
      BY <3>1, <3>2, <3>3 DEF Closing
    <3> QED BY <3>1, <3>4
  <2> QED BY <2>4, <2>5
<1> QED BY <1>1, <1>2
-----------------------------------------------------------------------------
(* Threads, rounds and sub-agents.                                          *)

LEMMA SpawnIs ==
    ASSUME TypeOK, Spawn
    PROVE  \E t \in SubAgent, c \in spawns :
              /\ pc[Root] = "spawn" /\ t \notin threads /\ madeBy[t] = 0 /\ c \in Call
              /\ threads' = threads \cup {t} /\ live' = live \cup {t}
              /\ madeBy' = [madeBy EXCEPT ![t] = c]
              /\ spawns' = spawns \ {c}
              /\ \E there \in {"exit", "spawn"} : pc' = [pc EXCEPT ![Root] = there]
              /\ UNCHANGED <<kind, asked, responses, decided, completed, turn, presend,
                             stop, aborted, announced, iterations, folded, cut, made, ran,
                             turns, faults>>
<1>1. PICK t \in Thread :
          /\ pc[Root] = "spawn" /\ spawns # {}
          /\ t \notin threads /\ madeBy[t] = 0 /\ t # Root
          /\ threads' = threads \cup {t} /\ live' = live \cup {t}
          /\ madeBy' = [madeBy EXCEPT ![t] = Min(spawns)]
          /\ spawns' = spawns \ {Min(spawns)}
          /\ pc' = [pc EXCEPT ![Root] = IF spawns' = {} THEN "exit" ELSE "spawn"]
          /\ UNCHANGED <<kind, asked, responses, decided, completed, turn, presend,
                         stop, aborted, announced, iterations, folded, cut, made, ran,
                         turns, faults>>
  BY DEF Spawn, Goto
<1>2. Min(spawns) \in spawns /\ Min(spawns) \in Call
  <2>1. spawns \in SUBSET Nat /\ spawns \in SUBSET Call
    BY DEF TypeOK, Call
  <2> QED BY <1>1, <2>1, MinIsIn
<1>3. \E there \in {"exit", "spawn"} : pc' = [pc EXCEPT ![Root] = there]
  BY <1>1
<1> QED BY <1>1, <1>2, <1>3 DEF SubAgent

(* The snapshot, the map and the generators stay in step.                 *)
LEMMA ThreadedStep ==
    ASSUME IInv, [Next]_vars PROVE Threaded'
<1> USE RootIsThread DEF IInv
<1>1. ASSUME NEW user \in BOOLEAN, NEW R \in SUBSET Call, Begin(user, R) PROVE Threaded'
  BY <1>1 DEF Threaded, TypeOK, Begin
<1>2. ASSUME NEW t \in Thread, Start(t) PROVE Threaded'
  BY <1>2 DEF Threaded, TypeOK, Start, Goto, stored
<1>3. ASSUME NEW t \in Thread, CallModel(t) PROVE Threaded'
  BY <1>3 DEF Threaded, TypeOK, CallModel, Goto, stored
<1>4. ASSUME NEW t \in Thread, ModelAnswers(t) PROVE Threaded'
  BY <1>4 DEF Threaded, TypeOK, ModelAnswers, Goto, stored
<1>5. ASSUME NEW t \in Thread, ModelAborted(t) PROVE Threaded'
  BY <1>5 DEF Threaded, TypeOK, ModelAborted, Goto, stored
<1>6. ASSUME NEW t \in Thread, Ask(t) PROVE Threaded'
  BY <1>6 DEF Threaded, TypeOK, Ask, Goto, stored
<1>7. ASSUME NEW t \in Thread, Execute(t) PROVE Threaded'
  BY <1>7 DEF Threaded, TypeOK, Execute, Goto, stored
<1>8. ASSUME NEW t \in Thread, Respond(t) PROVE Threaded'
  BY <1>8 DEF Threaded, TypeOK, Respond, Goto, stored
<1>9. ASSUME NEW t \in Thread, AnswerParent(t) PROVE Threaded'
  BY <1>9 DEF Threaded, TypeOK, AnswerParent, Goto, stored
<1>10. ASSUME NEW t \in Thread, Remove(t) PROVE Threaded'
  BY <1>10 DEF Threaded, Rounds, TypeOK, Remove, Goto
<1>11. ASSUME NEW t \in Thread, Fold(t) PROVE Threaded'
  BY <1>11 DEF Threaded, TypeOK, Fold, Goto, stored
<1>12. ASSUME NEW t \in Thread, StepFails(t) PROVE Threaded'
  BY <1>12 DEF Threaded, TypeOK, StepFails, Goto, stored
<1>13. CASE NextRound
  BY <1>13 DEF Threaded, TypeOK, NextRound, Leaves, stored
<1>14. CASE NextBatch
  BY <1>14 DEF Threaded, TypeOK, NextBatch, Queued, stored
<1>15. CASE Spawn
  BY <1>15, SpawnIs DEF Threaded, Unmade, TypeOK, SubAgent
<1>16. CASE RootDone
  BY <1>16 DEF Threaded, TypeOK, RootDone, Goto, stored
<1>17. CASE Settle
  BY <1>17 DEF Threaded, TypeOK, Settle, Goto, stored
<1>18. CASE Abort
  BY <1>18 DEF Threaded, TypeOK, Abort, Goto, stored
<1>19. CASE Interrupt
  BY <1>19 DEF Threaded, TypeOK, Interrupt, Goto, stored
<1>20. CASE UNCHANGED vars
  BY <1>20 DEF Threaded, vars, stored, memory
<1> QED
  BY <1>1, <1>2, <1>3, <1>4, <1>5, <1>6, <1>7, <1>8, <1>9, <1>10, <1>11, <1>12,
     <1>13, <1>14, <1>15, <1>16, <1>17, <1>18, <1>19, <1>20
     DEF Next, Step, Orchestrate

(* Only a creation makes a thread known.                                   *)
LEMMA UnmadeStep ==
    ASSUME IInv, [Next]_vars PROVE Unmade'
<1> USE RootIsThread DEF IInv
<1>1. ASSUME NEW user \in BOOLEAN, NEW R \in SUBSET Call, Begin(user, R) PROVE Unmade'
  BY <1>1 DEF Unmade, SubAgent, TypeOK, Begin, Goto, stored
<1>2. ASSUME NEW t \in Thread, Start(t) PROVE Unmade'
  BY <1>2 DEF Unmade, SubAgent, TypeOK, Start, Goto, stored
<1>3. ASSUME NEW t \in Thread, CallModel(t) PROVE Unmade'
  BY <1>3 DEF Unmade, SubAgent, TypeOK, CallModel, Goto, stored
<1>4. ASSUME NEW t \in Thread, ModelAnswers(t) PROVE Unmade'
  <2>1. \E K \in SUBSET Call, there \in {"failed", "done", "top"} :
           asked' = [asked EXCEPT ![t] = K] /\ pc' = [pc EXCEPT ![t] = there]
    BY <1>4, NewCalls
  <2>2. UNCHANGED <<threads, madeBy, live, iterations>> /\ pc[t] = "llm"
    BY <1>4 DEF ModelAnswers
  <2> QED BY <2>1, <2>2 DEF Unmade, SubAgent, TypeOK
<1>5. ASSUME NEW t \in Thread, ModelAborted(t) PROVE Unmade'
  BY <1>5 DEF Unmade, SubAgent, TypeOK, ModelAborted, Goto, stored
<1>6. ASSUME NEW t \in Thread, Ask(t) PROVE Unmade'
  BY <1>6 DEF Unmade, SubAgent, TypeOK, Ask, Goto, stored
<1>7. ASSUME NEW t \in Thread, Execute(t) PROVE Unmade'
  BY <1>7 DEF Unmade, SubAgent, TypeOK, Execute, Goto, stored
<1>8. ASSUME NEW t \in Thread, Respond(t) PROVE Unmade'
  BY <1>8 DEF Unmade, SubAgent, TypeOK, Respond, Goto, stored
<1>9. ASSUME NEW t \in Thread, AnswerParent(t) PROVE Unmade'
  BY <1>9 DEF Unmade, SubAgent, TypeOK, AnswerParent, Goto, stored
<1>10. ASSUME NEW t \in Thread, Remove(t) PROVE Unmade'
  BY <1>10 DEF Unmade, SubAgent, TypeOK, Remove, Goto, stored
<1>11. ASSUME NEW t \in Thread, Fold(t) PROVE Unmade'
  BY <1>11 DEF Unmade, SubAgent, TypeOK, Fold, Goto, stored
<1>12. ASSUME NEW t \in Thread, StepFails(t) PROVE Unmade'
  BY <1>12 DEF Unmade, SubAgent, TypeOK, StepFails, Goto, stored
<1>13. CASE NextRound
  BY <1>13 DEF Unmade, SubAgent, TypeOK, NextRound, Leaves, stored
<1>14. CASE NextBatch
  BY <1>14 DEF Unmade, SubAgent, TypeOK, NextBatch, Queued, stored
<1>15. CASE Spawn
  <2>1. \A c \in Call : c # 0
    BY DEF Call
  <2> QED BY <1>15, <2>1, SpawnIs DEF Unmade, TypeOK, SubAgent
<1>16. CASE RootDone
  BY <1>16 DEF Unmade, SubAgent, TypeOK, RootDone, Goto, stored
<1>17. CASE Settle
  BY <1>17 DEF Unmade, SubAgent, TypeOK, Settle, Goto, stored
<1>18. CASE Abort
  BY <1>18 DEF Unmade, SubAgent, TypeOK, Abort, Goto, stored
<1>19. CASE Interrupt
  BY <1>19 DEF Unmade, SubAgent, TypeOK, Interrupt, Goto, stored
<1>20. CASE UNCHANGED vars
  BY <1>20 DEF Unmade, SubAgent, vars, stored, memory
<1> QED
  BY <1>1, <1>2, <1>3, <1>4, <1>5, <1>6, <1>7, <1>8, <1>9, <1>10, <1>11, <1>12,
     <1>13, <1>14, <1>15, <1>16, <1>17, <1>18, <1>19, <1>20
     DEF Next, Step, Orchestrate

(* A round runs the main thread or its sub-agents.                         *)
LEMMA RoundsStep ==
    ASSUME IInv, [Next]_vars PROVE Rounds'
<1> USE RootIsThread DEF IInv
<1>1. ASSUME NEW user \in BOOLEAN, NEW R \in SUBSET Call, Begin(user, R) PROVE Rounds'
  BY <1>1 DEF Rounds, SubAgent, TypeOK, Begin, Goto, stored
<1>2. ASSUME NEW t \in Thread, Start(t) PROVE Rounds'
  BY <1>2 DEF Rounds, SubAgent, TypeOK, Start, Goto, stored
<1>3. ASSUME NEW t \in Thread, CallModel(t) PROVE Rounds'
  BY <1>3 DEF Rounds, SubAgent, TypeOK, CallModel, Goto, stored
<1>4. ASSUME NEW t \in Thread, ModelAnswers(t) PROVE Rounds'
  <2>1. \E there \in {"failed", "done", "top"} : pc' = [pc EXCEPT ![t] = there]
    BY <1>4, NewCalls
  <2>2. live' = live /\ pc[t] = "llm"
    BY <1>4 DEF ModelAnswers
  <2> QED BY <2>1, <2>2 DEF Rounds, SubAgent, TypeOK
<1>5. ASSUME NEW t \in Thread, ModelAborted(t) PROVE Rounds'
  BY <1>5 DEF Rounds, SubAgent, TypeOK, ModelAborted, Goto, stored
<1>6. ASSUME NEW t \in Thread, Ask(t) PROVE Rounds'
  BY <1>6 DEF Rounds, SubAgent, TypeOK, Ask, Goto, stored
<1>7. ASSUME NEW t \in Thread, Execute(t) PROVE Rounds'
  BY <1>7 DEF Rounds, SubAgent, TypeOK, Execute, Goto, stored
<1>8. ASSUME NEW t \in Thread, Respond(t) PROVE Rounds'
  <2>1. \E there \in {"top", "spawn", "exit"} : pc' = [pc EXCEPT ![t] = there]
    BY <1>8 DEF Respond, Goto
  <2>2. live' = live /\ pc[t] = "exec"
    BY <1>8 DEF Respond
  <2>3. ASSUME t # Root PROVE pc'[t] # "spawn"
    <3>1. {c \in Open(t) : kind[c] = "spawn"} = {}
      BY <2>3, OpenTyped DEF Messages
    <3> QED BY <1>8, <3>1 DEF Respond, Goto, TypeOK
  <2> QED BY <2>1, <2>2, <2>3 DEF Rounds, SubAgent, TypeOK
<1>9. ASSUME NEW t \in Thread, AnswerParent(t) PROVE Rounds'
  BY <1>9 DEF Rounds, SubAgent, TypeOK, AnswerParent, Goto, stored
<1>10. ASSUME NEW t \in Thread, Remove(t) PROVE Rounds'
  BY <1>10 DEF Rounds, SubAgent, TypeOK, Remove, Goto, stored
<1>11. ASSUME NEW t \in Thread, Fold(t) PROVE Rounds'
  BY <1>11 DEF Rounds, SubAgent, TypeOK, Fold, Goto, stored
<1>12. ASSUME NEW t \in Thread, StepFails(t) PROVE Rounds'
  BY <1>12 DEF Rounds, SubAgent, TypeOK, StepFails, Goto, stored
<1>13. CASE NextRound
  <2>1. Root \in live
    BY <1>13 DEF NextRound, Threaded
  <2> QED BY <1>13, <2>1 DEF Rounds, SubAgent, TypeOK, NextRound, Leaves
<1>14. CASE NextBatch
  BY <1>14 DEF Rounds, SubAgent, TypeOK, NextBatch, Queued, stored
<1>15. CASE Spawn
  BY <1>15, SpawnIs DEF Rounds, TypeOK, SubAgent
<1>16. CASE RootDone
  BY <1>16 DEF Rounds, SubAgent, TypeOK, RootDone, Goto, stored
<1>17. CASE Settle
  BY <1>17 DEF Rounds, SubAgent, TypeOK, Settle, Goto, stored
<1>18. CASE Abort
  BY <1>18 DEF Rounds, SubAgent, TypeOK, Abort, Goto, stored
<1>19. CASE Interrupt
  BY <1>19 DEF Rounds, SubAgent, TypeOK, Interrupt, Goto, stored
<1>20. CASE UNCHANGED vars
  BY <1>20 DEF Rounds, SubAgent, vars, stored, memory
<1> QED
  BY <1>1, <1>2, <1>3, <1>4, <1>5, <1>6, <1>7, <1>8, <1>9, <1>10, <1>11, <1>12,
     <1>13, <1>14, <1>15, <1>16, <1>17, <1>18, <1>19, <1>20
     DEF Next, Step, Orchestrate
(* A call the main thread asks for anew has no sub-agent.                    *)
LEMMA OpenOfRoot ==
    ASSUME IInv, [Next]_vars, NEW t \in SubAgent, madeBy[t] \in Open(Root)'
    PROVE  madeBy[t] \in Open(Root)
<1> USE RootIsThread DEF IInv
<1>1. CASE ~ModelAnswers(Root)
  BY <1>1, Shrinks
<1>2. CASE ModelAnswers(Root)
  <2>1. PICK K \in SUBSET Call :
            /\ \A c \in K : kind[c] = "unborn"
            /\ asked' = [asked EXCEPT ![Root] = K]
    BY <1>2, NewCalls
  <2>2. madeBy[t] \in K
    BY <2>1 DEF Open, TypeOK
  <2>3. madeBy[t] \in Call /\ madeBy[t] # 0
    <3>1. \A c \in Call : c # 0
      BY AgentBounds DEF Call
    <3> QED BY <2>1, <2>2, <3>1
  <2> QED BY <2>1, <2>2, <2>3 DEF Children
<1> QED BY <1>1, <1>2

(* Who is handled was at work or is the thread that just answered.          *)
LEMMA Handled ==
    ASSUME IInv, [Next]_vars, NEW t \in SubAgent, pc'[t] \in {"answered", "removed"}
    PROVE  \/ pc[t] \in {"answered", "removed"}
           \/ AnswerParent(t)
<1> SUFFICES ASSUME pc[t] \notin {"answered", "removed"} PROVE AnswerParent(t)
  OBVIOUS
<1> USE RootIsThread DEF IInv, SubAgent
<1>1. ASSUME NEW user \in BOOLEAN, NEW R \in SUBSET Call, Begin(user, R) PROVE FALSE
  BY <1>1 DEF Begin
<1>2. ASSUME NEW u \in Thread,
             \E there \in {"done", "top", "exit", "failed", "llm", "exec", "spawn"} :
                pc' = [pc EXCEPT ![u] = there]
      PROVE  FALSE
  BY <1>2 DEF TypeOK
<1>3. ASSUME NEW u \in Thread,
             \/ Start(u) \/ CallModel(u) \/ ModelAborted(u) \/ Ask(u) \/ Execute(u)
             \/ Respond(u) \/ Fold(u) \/ StepFails(u)
      PROVE  FALSE
  <2>1. \E there \in {"done", "top", "exit", "failed", "llm", "exec", "spawn"} :
            pc' = [pc EXCEPT ![u] = there]
    BY <1>3 DEF Start, CallModel, ModelAborted, Ask, Execute, Respond, Fold, StepFails, Goto
  <2> QED BY <1>2, <2>1
<1>4. ASSUME NEW u \in Thread, ModelAnswers(u) PROVE FALSE
  <2>1. \E there \in {"failed", "done", "top"} : pc' = [pc EXCEPT ![u] = there]
    BY <1>4, NewCalls
  <2> QED BY <1>2, <2>1
<1>5. ASSUME NEW u \in Thread, AnswerParent(u) PROVE AnswerParent(t)
  BY <1>5 DEF AnswerParent, Goto, TypeOK
<1>6. ASSUME NEW u \in Thread, Remove(u) PROVE FALSE
  BY <1>6 DEF Remove, Goto, TypeOK
<1>7. CASE NextRound \/ NextBatch \/ Settle \/ Interrupt \/ Abort \/ UNCHANGED vars
  BY <1>7 DEF NextRound, NextBatch, Settle, Interrupt, Abort, vars, memory, TypeOK
<1>8. CASE RootDone \/ Spawn
  <2>1. \E there \in {"exit", "spawn"} : pc' = [pc EXCEPT ![Root] = there]
    BY <1>8, SpawnIs DEF RootDone, Goto
  <2> QED BY <1>2, <2>1
<1> QED BY <1>1, <1>3, <1>4, <1>5, <1>6, <1>7, <1>8 DEF Next, Step, Orchestrate

(* A sub-agent leaves the snapshot only after its call was answered.       *)
LEMMA ChildrenStep ==
    ASSUME IInv, [Next]_vars PROVE Children'
<1> USE RootIsThread DEF IInv
<1>0. \A c \in Call : kind[c] # "unborn" => kind'[c] = kind[c]
  <2>1. ASSUME NEW u \in Thread, ModelAnswers(u), NEW c \in Call, kind[c] # "unborn"
        PROVE  kind'[c] = kind[c]
    <3>1. \E K \in SUBSET Call : /\ \A d \in K : kind[d] = "unborn"
                                 /\ \A d \in Call \ K : kind'[d] = kind[d]
      BY <2>1, NewCalls
    <3> QED BY <2>1, <3>1
  <2> QED BY <2>1, Changes
<1>1. CASE Spawn
  <2>1. PICK t \in SubAgent, c \in spawns :
            /\ pc[Root] = "spawn" /\ c \in Call
            /\ threads' = threads \cup {t}
            /\ madeBy' = [madeBy EXCEPT ![t] = c]
            /\ \E there \in {"exit", "spawn"} : pc' = [pc EXCEPT ![Root] = there]
            /\ UNCHANGED <<kind, asked, responses>>
    BY <1>1, SpawnIs
  <2>2. kind[c] = "spawn"
    BY <2>1 DEF Creations
  <2>3. \A u \in SubAgent : pc'[u] = "out"
    BY <2>1 DEF Rounds, TypeOK, SubAgent
  <2>4. Open(Root)' = Open(Root)
    BY <2>1 DEF Open
  <2>5. \A u \in SubAgent : u # t => madeBy'[u] = madeBy[u]
    BY <2>1 DEF TypeOK, SubAgent
  <2>6. t \in threads' /\ threads \subseteq threads' /\ madeBy'[t] = c
    BY <2>1 DEF TypeOK, SubAgent
  <2> QED BY <2>1, <2>2, <2>3, <2>4, <2>5, <2>6 DEF Children
<1>2. CASE ~Spawn
  <2>1. madeBy' = madeBy
    BY <1>2, Changes
  <2>2. ASSUME NEW t \in SubAgent, madeBy[t] # 0 PROVE kind'[madeBy[t]] = "spawn"
    BY <1>0, <2>2 DEF Children, TypeOK, SubAgent
  <2>3. ASSUME NEW t \in SubAgent, madeBy[t] \in Open(Root)' PROVE t \in threads'
    <3>1. madeBy[t] \in Open(Root)
      BY <2>3, OpenOfRoot
    <3>2. t \in threads
      BY <3>1 DEF Children
    <3>3. ASSUME NEW u \in Thread, Remove(u) PROVE t \in threads'
      BY <3>1, <3>2, <3>3 DEF Remove, Children
    <3> QED BY <1>2, <3>2, <3>3, Changes
  <2>4. ASSUME NEW t \in SubAgent, pc'[t] \in {"answered", "removed"}
        PROVE  madeBy[t] \notin Open(Root)'
    <3>1. CASE pc[t] \in {"answered", "removed"}
      BY <3>1, OpenOfRoot DEF Children
    <3>2. CASE AnswerParent(t) /\ madeBy[t] \in Open(Root)
      <4>1. Answer({madeBy[t]} \cup Closable(Root))
        BY <3>2 DEF AnswerParent
      <4>2. madeBy[t] \in Call /\ responses[madeBy[t]] = 0
        BY <3>2, OpenTyped DEF Open
      <4>3. responses'[madeBy[t]] # 0
        BY <4>1, <4>2 DEF Answer
      <4> QED BY <4>3 DEF Open
    <3>3. CASE madeBy[t] \notin Open(Root)
      BY <3>3, OpenOfRoot
    <3> QED BY <2>4, <3>1, <3>2, <3>3, Handled
  <2> QED BY <2>1, <2>2, <2>3, <2>4 DEF Children
<1> QED BY <1>1, <1>2

(* A creation takes a call no other sub-agent has.                         *)
LEMMA OneSubAgentStep ==
    ASSUME IInv, [Next]_vars PROVE OneSubAgentPerCall'
<1> USE RootIsThread DEF IInv
<1>1. CASE Spawn
  <2>1. PICK t \in SubAgent, c \in spawns :
            /\ pc[Root] = "spawn" /\ c \in Call
            /\ madeBy' = [madeBy EXCEPT ![t] = c]
    BY <1>1, SpawnIs
  <2>2. \A u \in SubAgent : madeBy[u] # c
    BY <2>1 DEF Creations
  <2> QED BY <2>1, <2>2 DEF OneSubAgentPerCall, TypeOK, SubAgent
<1>2. CASE ~Spawn
  BY <1>2, Changes DEF OneSubAgentPerCall
<1> QED BY <1>1, <1>2
(* Creations to come are open calls without a sub-agent.                   *)
LEMMA CreationsStep ==
    ASSUME IInv, [Next]_vars PROVE Creations'
<1> USE RootIsThread DEF IInv
<1>1. ASSUME NEW user \in BOOLEAN, NEW R \in SUBSET Call, Begin(user, R) PROVE Creations'
  BY <1>1 DEF Begin, Creations
<1>2. ASSUME NEW t \in Thread, Start(t) PROVE Creations'
  <2>1. \E there \in {"done", "top", "exit"} : pc' = [pc EXCEPT ![t] = there]
    BY <1>2 DEF Start, Goto
  <2>2. t # Root => pc[Root] = "out"
    BY <1>2 DEF Start, Rounds, SubAgent
  <2>3. pc'[Root] # "spawn"
    BY <2>1, <2>2 DEF TypeOK
  <2> QED BY <2>3 DEF Creations
<1>3. ASSUME NEW t \in Thread, CallModel(t) PROVE Creations'
  BY <1>3 DEF CallModel, Goto, TypeOK, Creations, Open, Rounds, SubAgent, stored
<1>4. ASSUME NEW t \in Thread, ModelAnswers(t) PROVE Creations'
  <2>1. \E there \in {"failed", "done", "top"} : pc' = [pc EXCEPT ![t] = there]
    BY <1>4, NewCalls
  <2>2. t # Root => pc[Root] = "out"
    BY <1>4 DEF ModelAnswers, Rounds, SubAgent
  <2>3. pc'[Root] # "spawn"
    BY <2>1, <2>2 DEF TypeOK
  <2> QED BY <2>3 DEF Creations
<1>5. ASSUME NEW t \in Thread, ModelAborted(t) PROVE Creations'
  BY <1>5 DEF ModelAborted, Goto, TypeOK, Creations, Open, Rounds, SubAgent, stored
<1>6. ASSUME NEW t \in Thread, Ask(t) PROVE Creations'
  BY <1>6 DEF Ask, Goto, TypeOK, Creations, Open, Rounds, SubAgent, stored
<1>7. ASSUME NEW t \in Thread, Execute(t) PROVE Creations'
  BY <1>7 DEF Execute, Goto, TypeOK, Creations, Open, Rounds, SubAgent, stored
<1>8. ASSUME NEW t \in Thread, Respond(t) PROVE Creations'
  <2>1. CASE t # Root
    <3>1. pc[Root] = "out"
      BY <1>8, <2>1 DEF Respond, Rounds, SubAgent
    <3>2. pc'[Root] = "out"
      BY <1>8, <2>1, <3>1 DEF Respond, Goto, TypeOK
    <3> QED BY <3>2 DEF Creations
  <2>2. CASE t = Root
    <3> DEFINE creations == {c \in Open(Root) : kind[c] = "spawn"}
    <3> SUFFICES ASSUME pc'[Root] = "spawn" PROVE Creations'
      BY DEF Creations
    <3>1. /\ pc[Root] = "exec" /\ Answer(Open(Root) \ creations)
          /\ UNCHANGED <<kind, asked, madeBy, live, threads>>
      BY <1>8, <2>2 DEF Respond
    <3>2. spawns' = creations
      BY <1>8, <2>2 DEF Respond, Goto, TypeOK
    <3>3. \A c \in creations : c \in Open(Root)' /\ kind'[c] = "spawn"
      <4>1. \A c \in creations : c \in Call /\ responses'[c] = responses[c]
        BY <3>1, OpenTyped DEF Answer
      <4> QED BY <3>1, <4>1 DEF Open
    <3>4. live = {Root} /\ turn # "none"
      BY <3>1 DEF Rounds, Threaded
    <3>5. \A u \in SubAgent : u \notin threads
      BY <3>4 DEF Threaded, SubAgent
    <3>6. \A u \in SubAgent : madeBy[u] \notin creations
      BY <3>5 DEF Children
    <3> HIDE DEF creations
    <3> QED BY <3>1, <3>2, <3>3, <3>6 DEF Creations
  <2> QED BY <2>1, <2>2
<1>9. ASSUME NEW t \in Thread, AnswerParent(t) PROVE Creations'
  <2>1. pc'[Root] = "out"
    BY <1>9 DEF AnswerParent, Goto, Rounds, SubAgent, TypeOK
  <2> QED BY <2>1 DEF Creations
<1>10. ASSUME NEW t \in Thread, Remove(t) PROVE Creations'
  BY <1>10 DEF Remove, Goto, TypeOK, Creations, Open, Rounds, SubAgent, stored
<1>11. ASSUME NEW t \in Thread, Fold(t) PROVE Creations'
  BY <1>11 DEF Fold, Goto, TypeOK, Creations, Open, Rounds, SubAgent, stored
<1>12. ASSUME NEW t \in Thread, StepFails(t) PROVE Creations'
  BY <1>12 DEF StepFails, Goto, TypeOK, Creations, Open, Rounds, SubAgent, stored
<1>13. CASE NextRound
  BY <1>13 DEF NextRound, Creations
<1>14. CASE NextBatch
  BY <1>14 DEF NextBatch, Creations, Batched, TypeOK
<1>15. CASE Spawn
  <2>1. PICK t \in SubAgent, c \in spawns :
            /\ pc[Root] = "spawn" /\ c \in Call
            /\ madeBy' = [madeBy EXCEPT ![t] = c]
            /\ spawns' = spawns \ {c}
            /\ UNCHANGED <<kind, asked, responses>>
    BY <1>15, SpawnIs
  <2>2. Open(Root)' = Open(Root)
    BY <2>1 DEF Open
  <2>3. \A u \in SubAgent : madeBy'[u] \notin spawns'
    BY <2>1 DEF Creations, TypeOK, SubAgent
  <2> QED BY <2>1, <2>2, <2>3 DEF Creations
<1>16. CASE RootDone
  BY <1>16 DEF RootDone, Goto, TypeOK, Creations, Open, Rounds, SubAgent, stored
<1>17. CASE Settle
  BY <1>17 DEF Settle, Goto, TypeOK, Creations, Open, Rounds, SubAgent, stored
<1>18. CASE Abort
  BY <1>18 DEF Abort, Goto, TypeOK, Creations, Open, Rounds, SubAgent, stored
<1>19. CASE Interrupt
  BY <1>19 DEF Interrupt, Goto, TypeOK, Creations, Open, Rounds, SubAgent, stored
<1>20. CASE UNCHANGED vars
  BY <1>20 DEF vars, stored, memory, Creations, Open
<1> QED
  BY <1>1, <1>2, <1>3, <1>4, <1>5, <1>6, <1>7, <1>8, <1>9, <1>10, <1>11, <1>12,
     <1>13, <1>14, <1>15, <1>16, <1>17, <1>18, <1>19, <1>20
     DEF Next, Step, Orchestrate
-----------------------------------------------------------------------------
(* Closing what dangles, and waiting for the user.                          *)

ClosingOf(t) ==
    /\ t \in presend =>
          Closable(t) = {} /\ pc[t] \notin {"top", "llm", "exec", "spawn"}
    /\ pc[t] = "top" => \A c \in Closable(t) : ran[c] = 0

(* A thread that neither gets a message nor runs its calls.                 *)
LEMMA ClosingStays ==
    ASSUME IInv, [Next]_vars, NEW t \in Thread, ~ModelAnswers(t),
           t \in presend' => t \in presend,
           pc'[t] = pc[t] \/ pc'[t] \notin {"top", "llm", "exec", "spawn"}
    PROVE  ClosingOf(t)'
<1> USE DEF IInv
<1>1. Closable(t)' \subseteq Closable(t)
  BY Shrinks
<1>2. ASSUME t \in presend'
      PROVE  Closable(t)' = {} /\ pc'[t] \notin {"top", "llm", "exec", "spawn"}
  BY <1>1, <1>2 DEF Closing
<1>3. ASSUME pc'[t] = "top", NEW c \in Closable(t)' PROVE ran'[c] = 0
  <2>1. c \in Closable(t) /\ c \in asked[t] /\ c \in Call /\ pc[t] = "top"
    BY <1>1, <1>3, OpenTyped
  <2>2. ran[c] = 0
    BY <2>1 DEF Closing
  <2>3. ASSUME NEW u \in Thread, Execute(u), c \in Open(u) PROVE FALSE
    <3>1. u = t
      BY <2>1, <2>3, OpenTyped DEF Messages
    <3>2. pc'[t] # "top"
      BY <2>3, <3>1 DEF Execute, Goto, TypeOK
    <3> QED BY <1>3, <3>2
  <2> QED BY <2>1, <2>2, <2>3, RunsOpen
<1> QED BY <1>2, <1>3 DEF ClosingOf
(* Nothing that dangles has run when a thread works on.                    *)
LEMMA ClosingStep ==
    ASSUME IInv, [Next]_vars, NEW u \in Thread PROVE ClosingOf(u)'
<1> USE RootIsThread DEF IInv
<1>1. CASE ModelAnswers(u)
  <2>1. PICK K \in SUBSET Call :
            /\ \A c \in K : kind[c] = "unborn"
            /\ asked' = [asked EXCEPT ![u] = K]
    BY <1>1, NewCalls
  <2>2. pc[u] = "llm" /\ presend' = presend /\ ran' = ran
    BY <1>1 DEF ModelAnswers
  <2>3. u \notin presend'
    BY <2>2 DEF Closing
  <2>4. ASSUME NEW c \in Closable(u)' PROVE ran'[c] = 0
    <3>1. c \in asked'[u]
      BY DEF Closable, Open
    <3>2. c \in K
      BY <2>1, <3>1 DEF TypeOK
    <3> QED BY <2>1, <2>2, <3>2 DEF Messages
  <2> QED BY <2>3, <2>4 DEF ClosingOf
<1>2. ASSUME NEW t \in Thread, ModelAnswers(t), t # u PROVE ClosingOf(u)'
  <2>1. \E there \in {"failed", "done", "top"} : pc' = [pc EXCEPT ![t] = there]
    BY <1>2, NewCalls
  <2>2. pc'[u] = pc[u] /\ presend' = presend /\ pc[t] = "llm"
    BY <1>2, <2>1 DEF ModelAnswers, TypeOK
  <2>3. ~ModelAnswers(u)
    <3>1. ASSUME ModelAnswers(u) PROVE FALSE
      <4>1. \E there \in {"failed", "done", "top"} : pc' = [pc EXCEPT ![u] = there]
        BY <3>1, NewCalls
      <4>2. pc[u] = "llm"
        BY <3>1 DEF ModelAnswers
      <4>3. pc'[u] # "llm"
        BY <4>1 DEF TypeOK
      <4> QED BY <2>2, <4>2, <4>3
    <3> QED BY <3>1
  <2> QED BY <2>2, <2>3, ClosingStays
<1> SUFFICES ASSUME \A t \in Thread : ~ModelAnswers(t) PROVE ClosingOf(u)'
  BY <1>1, <1>2
<1>3. ASSUME NEW user \in BOOLEAN, NEW R \in SUBSET Call, Begin(user, R)
      PROVE  ClosingOf(u)'
  <2> DEFINE approvals == UNION {AwaitsApproval(t) : t \in threads}
             sent == IF user THEN {Root}
                     ELSE {t \in threads : Open(t) \cap (R \cup approvals) # {}}
             closed == UNION {Closable(t) : t \in sent}
  <2>1. /\ Answer(R \cup closed) /\ presend' = sent
        /\ pc' = [t \in Thread |-> "out"]
    BY <1>3 DEF Begin
  <2>2. ASSUME u \in sent PROVE Closable(u)' = {}
    <3>1. Closable(u)' \subseteq Closable(u)
      BY Shrinks
    <3>2. ASSUME NEW c \in Closable(u)' PROVE FALSE
      <4>1. c \in closed /\ c \in Call
        BY <2>2, <3>1, <3>2, OpenTyped
      <4> HIDE DEF closed
      <4>2. responses'[c] = responses[c] + 1
        BY <2>1, <4>1 DEF Answer
      <4>3. responses'[c] = 0
        BY <3>2 DEF Closable, Open
      <4> QED BY <4>1, <4>2, <4>3 DEF TypeOK
    <3> QED BY <3>2
  <2> HIDE DEF sent
  <2> QED BY <2>1, <2>2 DEF ClosingOf
<1>4. ASSUME NEW t \in Thread, Start(t) PROVE ClosingOf(u)'
  <2>1. \E there \in {"done", "top", "exit"} : pc' = [pc EXCEPT ![t] = there]
    BY <1>4 DEF Start, Goto
  <2>2. presend' \subseteq presend
    BY <1>4 DEF Start
  <2>3. CASE t # u
    BY <2>1, <2>2, <2>3, ClosingStays DEF TypeOK
  <2>4. CASE t = u /\ t \in completed
    <3>1. pc'[u] = "done"
      BY <1>4, <2>4 DEF Start, Goto, TypeOK
    <3> QED BY <2>2, <3>1, ClosingStays
  <2>5. CASE t = u /\ t \notin completed
    <3>1. u \notin presend'
      BY <1>4, <2>5 DEF Start
    <3>2. CASE t \in presend
      <4>1. Closable(u)' = {}
        BY <2>5, <3>2, Shrinks DEF Closing
      <4> QED BY <3>1, <4>1 DEF ClosingOf
    <3>3. CASE t \notin presend
      <4>1. Answer(Closable(u))
        BY <1>4, <2>5, <3>3 DEF Start
      <4>2. ASSUME NEW c \in Closable(u)' PROVE FALSE
        <5>1. c \in Closable(u) /\ c \in Call
          BY <4>2, Shrinks, OpenTyped
        <5>2. responses'[c] = responses[c] + 1
          BY <4>1, <5>1 DEF Answer
        <5>3. responses'[c] = 0
          BY <4>2 DEF Closable, Open
        <5> QED BY <5>1, <5>2, <5>3 DEF TypeOK
      <4> QED BY <3>1, <4>2 DEF ClosingOf
    <3> QED BY <3>2, <3>3
  <2> QED BY <2>3, <2>4, <2>5
<1>5. ASSUME NEW t \in Thread, Execute(t) PROVE ClosingOf(u)'
  <2>1. \E there \in {"exit", "exec"} : pc' = [pc EXCEPT ![t] = there]
    BY <1>5 DEF Execute, Goto
  <2>2. presend' = presend /\ pc[t] = "top"
    BY <1>5 DEF Execute
  <2>3. CASE t # u
    BY <2>1, <2>2, <2>3, ClosingStays DEF TypeOK
  <2>4. CASE t = u
    <3>1. u \notin presend' /\ pc'[u] # "top"
      BY <2>1, <2>2, <2>4 DEF Closing, TypeOK
    <3> QED BY <3>1 DEF ClosingOf
  <2> QED BY <2>3, <2>4
<1>6. ASSUME NEW t \in Thread, Respond(t) PROVE ClosingOf(u)'
  <2>1. \E there \in {"top", "spawn", "exit"} : pc' = [pc EXCEPT ![t] = there]
    BY <1>6 DEF Respond, Goto
  <2>2. presend' = presend /\ pc[t] = "exec"
    BY <1>6 DEF Respond
  <2>3. CASE t # u
    BY <2>1, <2>2, <2>3, ClosingStays DEF TypeOK
  <2>4. CASE t = u
    <3>1. u \notin presend'
      BY <2>2, <2>4 DEF Closing
    <3>2. ASSUME NEW c \in Closable(u)' PROVE FALSE
      <4>1. c \in Open(u) /\ c \in Call /\ kind'[c] = "plain" /\ responses'[c] = 0
        BY <3>2, Shrinks, OpenTyped DEF Closable, Open
      <4>2. kind[c] = "plain"
        BY <1>6, <4>1 DEF Respond
      <4>3. Answer(Open(u) \ {d \in Open(u) : kind[d] = "spawn"})
        BY <1>6, <2>4 DEF Respond
      <4>4. responses'[c] = responses[c] + 1
        BY <4>1, <4>2, <4>3 DEF Answer
      <4> QED BY <4>1, <4>4 DEF TypeOK
    <3> QED BY <3>1, <3>2 DEF ClosingOf
  <2> QED BY <2>3, <2>4
<1>7. ASSUME NEW t \in Thread, AnswerParent(t) PROVE ClosingOf(u)'
  <2>1. pc' = [pc EXCEPT ![t] = "answered"] /\ t # Root /\ pc[t] # "out"
    BY <1>7 DEF AnswerParent, Goto
  <2>2. CASE u # Root \/ madeBy[t] \notin Open(Root)
    <3>1. u \in presend' => u \in presend
      BY <1>7, <2>2 DEF AnswerParent
    <3> QED BY <2>1, <3>1, ClosingStays DEF TypeOK
  <2>3. CASE u = Root /\ madeBy[t] \in Open(Root)
    <3>1. pc'[u] = "out"
      BY <2>1, <2>3 DEF Rounds, SubAgent, TypeOK
    <3>2. Answer({madeBy[t]} \cup Closable(Root))
      BY <1>7, <2>3 DEF AnswerParent
    <3>3. ASSUME NEW c \in Closable(u)' PROVE FALSE
      <4>1. c \in Closable(u) /\ c \in Call
        BY <3>3, Shrinks, OpenTyped
      <4>2. responses'[c] = responses[c] + 1
        BY <2>3, <3>2, <4>1 DEF Answer
      <4>3. responses'[c] = 0
        BY <3>3 DEF Closable, Open
      <4> QED BY <4>1, <4>2, <4>3 DEF TypeOK
    <3> QED BY <3>1, <3>3 DEF ClosingOf
  <2> QED BY <2>2, <2>3
<1>8. ASSUME NEW t \in Thread,
             \/ CallModel(t) \/ ModelAborted(t) \/ Ask(t) \/ Remove(t) \/ Fold(t)
             \/ StepFails(t)
      PROVE  ClosingOf(u)'
  <2>1. presend' = presend
    BY <1>8 DEF CallModel, ModelAborted, Ask, Remove, Fold, StepFails
  <2>2. CASE CallModel(t) /\ t = u
    <3>1. u \notin presend' /\ pc'[u] # "top"
      BY <2>1, <2>2 DEF CallModel, Goto, Closing, TypeOK
    <3> QED BY <3>1 DEF ClosingOf
  <2>3. CASE ~(CallModel(t) /\ t = u)
    <3>1. pc'[u] = pc[u] \/ pc'[u] \notin {"top", "llm", "exec", "spawn"}
      BY <1>8, <2>3 DEF CallModel, ModelAborted, Ask, Remove, Fold, StepFails, Goto, TypeOK
    <3> QED BY <2>1, <3>1, ClosingStays
  <2> QED BY <2>2, <2>3
<1>9. CASE NextRound \/ NextBatch \/ RootDone \/ Settle \/ Abort \/ Interrupt
  <2>1. presend' = presend
    BY <1>9 DEF NextRound, NextBatch, RootDone, Settle, Abort, Interrupt
  <2>2. pc'[u] = pc[u] \/ pc'[u] \notin {"top", "llm", "exec", "spawn"}
    BY <1>9 DEF NextRound, NextBatch, RootDone, Settle, Abort, Interrupt, Goto, TypeOK
  <2> QED BY <2>1, <2>2, ClosingStays
<1>10. CASE Spawn
  <2>1. PICK there \in {"exit", "spawn"} :
            pc' = [pc EXCEPT ![Root] = there] /\ presend' = presend /\ pc[Root] = "spawn"
    BY <1>10, SpawnIs
  <2>2. pc'[u] = pc[u] \/ pc'[u] \notin {"top", "llm", "exec", "spawn"}
    BY <2>1 DEF TypeOK
  <2> QED BY <2>1, <2>2, ClosingStays
<1>11. CASE UNCHANGED vars
  BY <1>11, ClosingStays DEF vars, memory
<1> QED
  BY <1>3, <1>4, <1>5, <1>6, <1>7, <1>8, <1>9, <1>10, <1>11 DEF Next, Step, Orchestrate
(* A turn begins with an answer to everything that waited.                  *)
LEMMA BeginAnswers ==
    ASSUME IInv, NEW user \in BOOLEAN, NEW R \in SUBSET Call, Begin(user, R),
           NEW t \in threads
    PROVE  Awaits(t)' = {}
<1> USE DEF IInv
<1> DEFINE waiting == UNION {Awaits(u) : u \in threads}
           approvals == UNION {AwaitsApproval(u) : u \in threads}
           sent == IF user THEN {Root}
                   ELSE {u \in threads : Open(u) \cap (R \cup approvals) # {}}
           closed == UNION {Closable(u) : u \in sent}
<1>1. t \in Thread
  BY DEF TypeOK
<1>2. [Next]_vars /\ ~ModelAnswers(t)
  BY DEF Next, Begin, ModelAnswers, Threaded, TypeOK
<1>3. Awaits(t)' \subseteq Awaits(t) /\ Awaits(t) \subseteq Open(t) /\ Open(t) \subseteq Call
  BY <1>1, <1>2, Shrinks, OpenTyped
<1>4. CASE user
  <2>1. t = Root /\ Open(Root) = Closable(Root)
    BY <1>4 DEF Begin
  <2>2. Awaits(Root) \cap Closable(Root) = {}
    BY DEF Awaits, AwaitsApproval, AwaitsClient, Closable
  <2> QED BY <1>3, <2>1, <2>2
<1>5. CASE ~user
  <2>1. /\ waiting \ approvals \subseteq R
        /\ Answer(R \cup closed) /\ decided' = decided \cup approvals /\ kind' = kind
    BY <1>5 DEF Begin
  <2>2. ASSUME NEW c \in Awaits(t)' PROVE FALSE
    <3>1. c \in waiting /\ c \in Call
      BY <1>3, <2>2
    <3>2. /\ responses'[c] = 0
          /\ kind'[c] = "client" \/ (kind'[c] = "approval" /\ c \notin decided')
      BY <2>2 DEF Awaits, AwaitsApproval, AwaitsClient, Open
    <3>3. c \in approvals => kind[c] = "approval"
      BY DEF AwaitsApproval
    <3> HIDE DEF waiting, approvals, closed
    <3>4. c \notin approvals
      BY <2>1, <3>2, <3>3
    <3>5. c \in R \cup closed
      BY <2>1, <3>1, <3>4
    <3>6. responses'[c] = responses[c] + 1
      BY <2>1, <3>1, <3>5 DEF Answer
    <3> QED BY <3>1, <3>2, <3>6 DEF TypeOK
  <2> QED BY <2>2
<1> QED BY <1>4, <1>5

(* A thread that came to wait got its message just now.                      *)
LEMMA NewlyWaiting ==
    ASSUME IInv, NEW t \in Thread, ModelAnswers(t), Awaits(t)' # {}
    PROVE  /\ pc'[t] \in {"top", "failed"}
           /\ pc'[t] = "top" \/ t \in cut'
<1> USE DEF IInv
<1>1. PICK K \in SUBSET Call, there \in {"failed", "done", "top"} :
          /\ asked' = [asked EXCEPT ![t] = K]
          /\ pc' = [pc EXCEPT ![t] = there]
          /\ K # {} => there # "done"
          /\ K # {} => there = "top" \/ t \in cut'
  BY NewCalls
<1>2. Awaits(t)' \subseteq asked'[t]
  BY DEF Awaits, AwaitsApproval, AwaitsClient, Open
<1>3. K # {} /\ pc'[t] = there
  BY <1>1, <1>2 DEF TypeOK
<1> QED BY <1>1, <1>3

(* What a thread that waits can do: only ask, or end when it failed.        *)
LEMMA WaitersAsk ==
    ASSUME IInv, [Next]_vars, turn = "running", turn' = "running",
           NEW t \in Thread, Awaits(t) # {}, pc[t] = "top"
    PROVE  pc'[t] = "top" \/ Ask(t)
<1> USE RootIsThread DEF IInv
<1>0. Open(t) # {}
  BY OpenTyped
<1>1. ASSUME NEW user \in BOOLEAN, NEW R \in SUBSET Call, Begin(user, R) PROVE FALSE
  BY <1>1 DEF Begin
<1>2. ASSUME NEW u \in Thread, u # t,
             \E there \in {"done", "top", "exit", "failed", "llm", "exec", "spawn",
                           "answered", "removed"} : pc' = [pc EXCEPT ![u] = there]
      PROVE  pc'[t] = "top"
  BY <1>2 DEF TypeOK
<1>3. ASSUME NEW u \in Thread,
             \/ Start(u) \/ CallModel(u) \/ ModelAborted(u) \/ Ask(u) \/ Execute(u)
             \/ Respond(u) \/ Fold(u) \/ StepFails(u) \/ AnswerParent(u) \/ Remove(u)
      PROVE  pc'[t] = "top" \/ Ask(t)
  <2>1. \E there \in {"done", "top", "exit", "failed", "llm", "exec", "spawn",
                      "answered", "removed"} : pc' = [pc EXCEPT ![u] = there]
    BY <1>3 DEF Start, CallModel, ModelAborted, Ask, Execute, Respond, Fold, StepFails,
                AnswerParent, Remove, Goto
  <2>2. CASE u # t
    BY <1>2, <2>1, <2>2
  <2>3. CASE u = t
    BY <1>0, <1>3, <2>3 DEF Start, CallModel, ModelAborted, Execute, Respond, Fold,
                            StepFails, AnswerParent, Remove
  <2> QED BY <2>2, <2>3
<1>4. ASSUME NEW u \in Thread, ModelAnswers(u) PROVE pc'[t] = "top"
  <2>1. pc[u] = "llm" /\ \E there \in {"failed", "done", "top"} : pc' = [pc EXCEPT ![u] = there]
    BY <1>4, NewCalls
  <2> QED BY <1>2, <2>1
<1>5. CASE NextRound \/ NextBatch \/ Abort \/ UNCHANGED vars
  BY <1>5 DEF NextRound, NextBatch, Batched, Queued, Abort, vars, memory, TypeOK
<1>6. CASE Settle \/ Interrupt
  BY <1>6 DEF Settle, Interrupt
<1>7. CASE RootDone \/ Spawn
  <2>1. pc[Root] # "top" /\ \E there \in {"exit", "spawn"} : pc' = [pc EXCEPT ![Root] = there]
    BY <1>7, SpawnIs DEF RootDone, Goto
  <2> QED BY <1>2, <2>1
<1> QED BY <1>1, <1>3, <1>4, <1>5, <1>6, <1>7 DEF Next, Step, Orchestrate

(* Once set, the stop stays for the turn.                                   *)
LEMMA StopStays ==
    ASSUME IInv, [Next]_vars, turn = "running", stop PROVE stop'
<1>1. ASSUME NEW user \in BOOLEAN, NEW R \in SUBSET Call, Begin(user, R) PROVE FALSE
  BY <1>1 DEF Begin
<1>2. ASSUME NEW t \in Thread, Step(t) \/ StepFails(t) PROVE stop' = stop \/ stop' = TRUE
  BY <1>2 DEF Step, Start, CallModel, ModelAnswers, ModelAborted, Ask, Execute, Respond,
              AnswerParent, Remove, Fold, StepFails
<1>3. CASE Orchestrate \/ Abort \/ Interrupt \/ UNCHANGED vars
  <2>1. stop' = stop \/ stop' = TRUE
    BY <1>3 DEF Orchestrate, NextRound, NextBatch, Spawn, RootDone, Settle, Abort,
                Interrupt, vars, memory
  <2> QED BY <2>1
<1> QED BY <1>1, <1>2, <1>3 DEF Next

(* A main thread that failed ends the turn.                                 *)
LEMMA FailedStops ==
    ASSUME IInv, [Next]_vars, turn = "running", turn' = "running", pc[Root] = "failed"
    PROVE  pc'[Root] = "failed" \/ stop'
<1> USE RootIsThread DEF IInv
<1>1. ASSUME NEW user \in BOOLEAN, NEW R \in SUBSET Call, Begin(user, R) PROVE FALSE
  BY <1>1 DEF Begin
<1>2. ASSUME NEW u \in Thread, u # Root,
             \E there \in {"done", "top", "exit", "failed", "llm", "exec", "spawn",
                           "answered", "removed"} : pc' = [pc EXCEPT ![u] = there]
      PROVE  pc'[Root] = "failed"
  BY <1>2 DEF TypeOK
<1>3. ASSUME NEW u \in Thread,
             \/ Start(u) \/ CallModel(u) \/ ModelAborted(u) \/ Ask(u) \/ Execute(u)
             \/ Respond(u) \/ Fold(u) \/ StepFails(u) \/ AnswerParent(u) \/ Remove(u)
      PROVE  pc'[Root] = "failed"
  <2>1. \E there \in {"done", "top", "exit", "failed", "llm", "exec", "spawn",
                      "answered", "removed"} : pc' = [pc EXCEPT ![u] = there]
    BY <1>3 DEF Start, CallModel, ModelAborted, Ask, Execute, Respond, Fold, StepFails,
                AnswerParent, Remove, Goto
  <2>2. u # Root
    BY <1>3 DEF Start, CallModel, ModelAborted, Ask, Execute, Respond, Fold,
                StepFails, AnswerParent, Remove
  <2> QED BY <1>2, <2>1, <2>2
<1>4. ASSUME NEW u \in Thread, ModelAnswers(u) PROVE pc'[Root] = "failed"
  <2>1. pc[u] = "llm" /\ \E there \in {"failed", "done", "top"} : pc' = [pc EXCEPT ![u] = there]
    BY <1>4, NewCalls
  <2> QED BY <1>2, <2>1
<1>5. CASE NextRound \/ NextBatch \/ Abort \/ UNCHANGED vars
  BY <1>5 DEF NextRound, NextBatch, Batched, Queued, Abort, vars, memory, TypeOK
<1>6. CASE Settle \/ Interrupt
  BY <1>6 DEF Settle, Interrupt
<1>7. CASE RootDone
  BY <1>7 DEF RootDone
<1>8. CASE Spawn
  BY <1>8, SpawnIs
<1> QED BY <1>1, <1>3, <1>4, <1>5, <1>6, <1>7, <1>8 DEF Next, Step, Orchestrate

(* Only createTurn starts a turn.                                          *)
LEMMA TurnBegins ==
    ASSUME [Next]_vars, turn # "running", turn' = "running"
    PROVE  \E user \in BOOLEAN, R \in SUBSET Call : Begin(user, R)
<1>1. ASSUME NEW t \in Thread, Step(t) \/ StepFails(t) PROVE turn' = turn
  BY <1>1 DEF Step, Start, CallModel, ModelAnswers, ModelAborted, Ask, Execute, Respond,
              AnswerParent, Remove, Fold, StepFails
<1>2. CASE Orchestrate \/ Abort \/ Interrupt \/ UNCHANGED vars
  BY <1>2 DEF Orchestrate, NextRound, NextBatch, Spawn, RootDone, Settle, Abort, Interrupt,
              vars
<1> QED BY <1>1, <1>2 DEF Next

(* Sub-agents work only while the main thread waits for nobody.            *)
LEMMA WaitingStep ==
    ASSUME IInv, [Next]_vars PROVE Waiting'
<1> USE RootIsThread DEF IInv
<1>1. ASSUME turn' = "running", Awaits(Root)' # {}
      PROVE  stop' \/ pc'[Root] \in {"top", "failed"}
  <2>1. CASE ModelAnswers(Root)
    BY <1>1, <2>1, NewlyWaiting
  <2>2. CASE ~ModelAnswers(Root) /\ turn # "running"
    <3>1. PICK user \in BOOLEAN, R \in SUBSET Call : Begin(user, R)
      BY <1>1, <2>2, TurnBegins
    <3> QED BY <1>1, <3>1, BeginAnswers DEF Threaded
  <2>3. CASE ~ModelAnswers(Root) /\ turn = "running"
    <3>1. Awaits(Root) # {}
      BY <1>1, <2>3, Shrinks
    <3>2. CASE stop
      BY <2>3, <3>2, StopStays
    <3>3. CASE pc[Root] = "top"
      BY <1>1, <2>3, <3>1, <3>3, WaitersAsk DEF Ask
    <3>4. CASE pc[Root] = "failed"
      BY <1>1, <2>3, <3>4, FailedStops
    <3> QED BY <2>3, <3>1, <3>2, <3>3, <3>4 DEF Waiting
  <2> QED BY <2>1, <2>2, <2>3
<1>2. ASSUME NEW t \in SubAgent, pc'[t] # "out" PROVE Awaits(Root)' = {}
  <2>1. CASE \E u \in SubAgent : pc[u] # "out"
    <3>1. Awaits(Root) = {} /\ pc[Root] = "out"
      BY <2>1 DEF Waiting, Rounds
    <3>2. ~ModelAnswers(Root)
      BY <3>1 DEF ModelAnswers
    <3> QED BY <3>1, <3>2, Shrinks
  <2>2. CASE \A u \in SubAgent : pc[u] = "out"
    <3>1. NextRound
      <4>1. pc'[t] # pc[t] /\ pc[t] = "out" /\ t # Root /\ t \in Thread
        BY <1>2, <2>2 DEF SubAgent
      <4>2. ASSUME NEW u \in Thread, pc[u] # "out",
                   \E there \in {"done", "top", "exit", "failed", "llm", "exec", "spawn",
                                 "answered", "removed"} : pc' = [pc EXCEPT ![u] = there]
            PROVE  FALSE
        BY <4>1, <4>2 DEF TypeOK
      <4>3. ASSUME NEW u \in Thread, Step(u) \/ StepFails(u) PROVE FALSE
        <5>1. pc[u] # "out"
          BY <4>3 DEF Step, Start, CallModel, ModelAnswers, ModelAborted, Ask, Execute,
                      Respond, Fold, StepFails, AnswerParent, Remove
        <5>2. CASE ModelAnswers(u)
          BY <4>2, <5>1, <5>2, NewCalls
        <5>3. CASE ~ModelAnswers(u)
          <6>1. \E there \in {"done", "top", "exit", "failed", "llm", "exec", "spawn",
                              "answered", "removed"} : pc' = [pc EXCEPT ![u] = there]
            BY <4>3, <5>3 DEF Step, Start, CallModel, ModelAborted, Ask, Execute, Respond,
                              Fold, StepFails, AnswerParent, Remove, Goto
          <6> QED BY <4>2, <5>1, <6>1
        <5> QED BY <5>2, <5>3
      <4>4. CASE RootDone \/ Spawn
        <5>1. pc[Root] # "out" /\ \E there \in {"exit", "spawn"} : pc' = [pc EXCEPT ![Root] = there]
          BY <4>4, SpawnIs DEF RootDone, Goto
        <5> QED BY <4>2, <5>1
      <4>5. CASE NextBatch \/ Settle \/ Abort \/ Interrupt \/ UNCHANGED vars
        BY <4>1, <4>5 DEF NextBatch, Queued, Settle, Abort, Interrupt, vars, memory, TypeOK
      <4>6. ASSUME NEW user \in BOOLEAN, NEW R \in SUBSET Call, Begin(user, R) PROVE FALSE
        BY <4>1, <4>6 DEF Begin
      <4> QED BY <4>3, <4>4, <4>5, <4>6 DEF Next, Orchestrate
    <3>2. turn = "running" /\ ~stop /\ pc[Root] \notin {"top", "failed"}
      BY <3>1 DEF NextRound, Batched
    <3>3. Awaits(Root) = {} /\ ~ModelAnswers(Root)
      BY <3>1, <3>2 DEF Waiting, NextRound, ModelAnswers, Batched
    <3> QED BY <3>3, Shrinks
  <2> QED BY <2>1, <2>2
<1> QED BY <1>1, <1>2 DEF Waiting
(* A sub-agent removed from the snapshot is no thread; a new one waits for nobody. *)
LEMMA ThreadsGrow ==
    ASSUME IInv, [Next]_vars, NEW t \in threads', Awaits(t)' # {}
    PROVE  t \in threads
<1> USE RootIsThread DEF IInv
<1>1. CASE Spawn
  <2>1. PICK u \in SubAgent :
            /\ madeBy[u] = 0 /\ threads' = threads \cup {u}
            /\ asked' = asked
    BY <1>1, SpawnIs
  <2>2. asked'[u] = {}
    BY <2>1 DEF Unmade
  <2>3. Awaits(t)' \subseteq asked'[t]
    BY DEF Awaits, AwaitsApproval, AwaitsClient, Open
  <2> QED BY <2>1, <2>2, <2>3
<1>2. CASE ~Spawn
  <2>1. ASSUME NEW u \in Thread, Remove(u) PROVE t \in threads
    BY <2>1 DEF Remove
  <2> QED BY <1>2, <2>1, Changes
<1> QED BY <1>1, <1>2

(* What was announced, or cut off, stays so for the turn.                               *)
LEMMA AnnouncedStays ==
    ASSUME IInv, [Next]_vars, turn = "running"
    PROVE  announced \cup cut \subseteq announced' \cup cut'
<1>1. ASSUME NEW user \in BOOLEAN, NEW R \in SUBSET Call, Begin(user, R) PROVE FALSE
  BY <1>1 DEF Begin
<1>2. ASSUME NEW t \in Thread, Step(t) \/ StepFails(t)
      PROVE  announced \cup cut \subseteq announced' \cup cut'
  BY <1>2 DEF Step, Start, CallModel, ModelAnswers, ModelAborted, Ask, Execute, Respond,
              AnswerParent, Remove, Fold, StepFails
<1>3. CASE Orchestrate \/ Abort \/ Interrupt \/ UNCHANGED vars
  BY <1>3 DEF Orchestrate, NextRound, NextBatch, Spawn, RootDone, Settle, Abort,
              Interrupt, vars, memory
<1> QED BY <1>1, <1>2, <1>3 DEF Next

(* Who waits has said so, or says so before its generator ends.            *)
LEMMA AnnouncingStep ==
    ASSUME IInv, Announcing, [Next]_vars PROVE Announcing'
<1> USE RootIsThread DEF IInv
<1> SUFFICES ASSUME turn' = "running", NEW t \in threads', Awaits(t)' # {}
             PROVE  t \in announced' \cup cut' \/ pc'[t] = "top"
  BY DEF Announcing
<1>1. t \in threads /\ t \in Thread
  BY ThreadsGrow DEF TypeOK
<1>2. CASE turn # "running"
  <2>1. PICK user \in BOOLEAN, R \in SUBSET Call : Begin(user, R)
    BY <1>2, TurnBegins
  <2> QED BY <1>1, <2>1, BeginAnswers
<1>3. CASE turn = "running" /\ ModelAnswers(t)
  BY <1>1, <1>3, NewlyWaiting
<1>4. CASE turn = "running" /\ ~ModelAnswers(t)
  <2>1. Awaits(t) # {}
    BY <1>1, <1>4, Shrinks
  <2>2. CASE t \in announced \cup cut
    BY <1>4, <2>2, AnnouncedStays
  <2>3. CASE pc[t] = "top"
    <3>1. pc'[t] = "top" \/ Ask(t)
      BY <1>1, <1>4, <2>1, <2>3, WaitersAsk
    <3> QED BY <3>1 DEF Ask
  <2> QED BY <1>1, <1>4, <2>1, <2>2, <2>3 DEF Announcing
<1> QED BY <1>2, <1>3, <1>4

(* A turn settles when no generator is at work.                            *)
LEMMA AnnouncedStep ==
    ASSUME IInv, Announcing, WaitingIsAnnounced, [Next]_vars PROVE WaitingIsAnnounced'
<1> USE RootIsThread DEF IInv
<1> SUFFICES ASSUME turn' = "settled" PROVE \A t \in threads' : Awaits(t)' = {} \/ t \in announced' \cup cut'
  BY DEF WaitingIsAnnounced
<1>1. CASE Settle
  <2>1. /\ turn = "running" /\ \A t \in Thread : pc[t] # "top"
        /\ UNCHANGED <<threads, announced, cut, asked, responses, kind, decided>>
    BY <1>1 DEF Settle, Batched, stored
  <2>2. \A t \in threads : Awaits(t)' = Awaits(t)
    BY <2>1 DEF Awaits, AwaitsApproval, AwaitsClient, Open
  <2> QED BY <2>1, <2>2 DEF Announcing, TypeOK
<1>2. CASE ~Settle
  <2>1. turn = "settled" /\ \A t \in Thread : pc[t] = "out"
    <3>1. ASSUME NEW user \in BOOLEAN, NEW R \in SUBSET Call, Begin(user, R) PROVE FALSE
      BY <3>1 DEF Begin
    <3>2. ASSUME NEW t \in Thread, Step(t) \/ StepFails(t) PROVE turn' = turn
      BY <3>2 DEF Step, Start, CallModel, ModelAnswers, ModelAborted, Ask, Execute, Respond,
                  AnswerParent, Remove, Fold, StepFails
    <3>3. ASSUME Orchestrate \/ Abort \/ UNCHANGED vars PROVE turn' = turn
      BY <1>2, <3>3 DEF Orchestrate, NextRound, NextBatch, Spawn, RootDone, Abort, vars
    <3>4. ASSUME Interrupt PROVE FALSE
      BY <3>4 DEF Interrupt
    <3>5. turn' = turn
      BY <3>1, <3>2, <3>3, <3>4 DEF Next
    <3> QED BY <3>5 DEF Threaded
  <2>2. UNCHANGED vars
    <3>1. ASSUME NEW user \in BOOLEAN, NEW R \in SUBSET Call, Begin(user, R) PROVE FALSE
      BY <3>1 DEF Begin
    <3>2. ASSUME NEW t \in Thread, Step(t) \/ StepFails(t) PROVE FALSE
      <4>1. pc[t] # "out"
        BY <3>2 DEF Step, Start, CallModel, ModelAnswers, ModelAborted, Ask, Execute, Respond,
                    AnswerParent, Remove, Fold, StepFails
      <4> QED BY <2>1, <4>1
    <3>3. CASE Orchestrate \/ Abort \/ Interrupt
      BY <1>2, <2>1, <3>3 DEF Orchestrate, NextRound, NextBatch, Queued, Spawn, RootDone,
                              Abort, Interrupt
    <3> QED BY <3>1, <3>2, <3>3 DEF Next
  <2>3. UNCHANGED <<threads, announced, cut, asked, responses, kind, decided>>
    BY <2>2 DEF vars, stored, memory
  <2>4. \A t \in threads : Awaits(t)' = Awaits(t)
    BY <2>3 DEF Awaits, AwaitsApproval, AwaitsClient, Open
  <2> QED BY <2>1, <2>3, <2>4 DEF WaitingIsAnnounced
<1> QED BY <1>1, <1>2
-----------------------------------------------------------------------------
(* The metrics of a turn.                                                   *)

LiveSum == Sum(iterations, live)

(* The property in terms of Sum.                                           *)
LEMMA MetricsIs ==
    MetricsCountedOnce <=> folded + LiveSum = made
  BY SumIsFold DEF MetricsCountedOnce, LiveSum

(* There are finitely many threads.                                        *)
LEMMA ThreadsFinite ==
    ASSUME NEW S \in SUBSET Thread PROVE IsFiniteSet(S)
<1>1. IsFiniteSet(Thread)
  <2>1. 0 \in Int /\ MaxThreads - 1 \in Int
    BY AgentBounds
  <2> QED BY <2>1, FS_Interval DEF Thread
<1> QED BY <1>1, FS_Subset

LEMMA LiveFinite ==
    ASSUME TypeOK
    PROVE  IsFiniteSet(live) /\ \A t \in live : iterations[t] \in Nat
<1>2. IsFiniteSet(live)
  BY ThreadsFinite DEF TypeOK
<1>3. \A t \in live : iterations[t] \in Nat
  BY AgentBounds DEF TypeOK
<1> QED BY <1>2, <1>3

(* A model call adds one to both sides, a fold moves a thread's share, a   *)
(* creation adds a thread without iterations.                              *)
LEMMA MetricsStep ==
    ASSUME IInv, TypeOK', MetricsCountedOnce, [Next]_vars
    PROVE  MetricsCountedOnce'
<1> USE RootIsThread DEF IInv
<1>0. /\ folded + LiveSum = made
      /\ folded' + LiveSum' = made' => MetricsCountedOnce'
      /\ IsFiniteSet(live) /\ \A t \in live : iterations[t] \in Nat
      /\ LiveSum \in Nat /\ folded \in Nat /\ made \in Nat
  <2>1. MetricsCountedOnce' <=> folded' + LiveSum' = made'
    BY DEF MetricsCountedOnce, LiveSum, Sum, Folds, Chosen, MapThenSumSet, MapThenFoldSet
  <2> QED BY <2>1, MetricsIs, LiveFinite, SumNat DEF LiveSum, TypeOK
<1>1. CASE UNCHANGED <<iterations, live, folded, made>>
  <2>1. LiveSum' = LiveSum
    BY <1>1 DEF LiveSum
  <2> QED BY <1>0, <1>1, <2>1
<1>2. ASSUME NEW user \in BOOLEAN, NEW R \in SUBSET Call, Begin(user, R)
      PROVE  MetricsCountedOnce'
  <2>1. /\ folded' = 0 /\ made' = 0 /\ live' = threads
        /\ iterations' = [t \in Thread |-> 0]
    BY <1>2 DEF Begin
  <2>2. IsFiniteSet(live') /\ \A t \in live' : iterations'[t] = 0
    <3>1. IsFiniteSet(live')
      BY ThreadsFinite DEF TypeOK
    <3> QED BY <2>1, <3>1 DEF TypeOK
  <2>3. LiveSum' = 0
    BY <2>2, SumZero DEF LiveSum
  <2> QED BY <1>0, <2>1, <2>3
<1>3. ASSUME NEW t \in Thread, CallModel(t) PROVE MetricsCountedOnce'
  <2>1. CASE UNCHANGED <<iterations, made>>
    BY <1>1, <1>3, <2>1 DEF CallModel
  <2>2. CASE ~UNCHANGED <<iterations, made>>
    <3>1. /\ iterations' = [iterations EXCEPT ![t] = @ + 1] /\ made' = made + 1
          /\ live' = live /\ folded' = folded /\ t \in live
      BY <1>3, <2>2 DEF CallModel, Threaded
    <3>2. LiveSum = iterations[t] + Sum(iterations, live \ {t})
      BY <1>0, <3>1, SumRemove DEF LiveSum
    <3>3. \A u \in live : iterations'[u] \in Nat
      BY <1>0, <3>1 DEF TypeOK
    <3>4. LiveSum' = iterations'[t] + Sum(iterations', live \ {t})
      <4>1. Sum(iterations', live) = iterations'[t] + Sum(iterations', live \ {t})
        BY <1>0, <3>1, <3>3, SumRemove
      <4> QED BY <3>1, <4>1 DEF LiveSum
    <3>5. Sum(iterations', live \ {t}) = Sum(iterations, live \ {t})
      <4>1. IsFiniteSet(live \ {t}) /\ \A u \in live \ {t} : iterations'[u] = iterations[u]
        BY <1>0, <3>1, FS_Subset DEF TypeOK
      <4> QED BY <4>1, SumSame
    <3>6. Sum(iterations, live \ {t}) \in Nat
      BY <1>0, FS_Subset, SumNat
    <3>7. iterations'[t] = iterations[t] + 1 /\ iterations[t] \in Nat
      BY <1>0, <3>1 DEF TypeOK
    <3> QED BY <1>0, <3>1, <3>2, <3>4, <3>5, <3>6, <3>7
  <2> QED BY <2>1, <2>2
<1>4. ASSUME NEW t \in Thread, Fold(t) PROVE MetricsCountedOnce'
  <2>1. /\ folded' = folded + iterations[t] /\ live' = live \ {t}
        /\ iterations' = iterations /\ made' = made /\ t \in live
    BY <1>4 DEF Fold, Threaded
  <2>2. LiveSum = iterations[t] + Sum(iterations, live \ {t})
    BY <1>0, <2>1, SumRemove DEF LiveSum
  <2>3. LiveSum' = Sum(iterations, live \ {t})
    BY <2>1 DEF LiveSum
  <2>4. Sum(iterations, live \ {t}) \in Nat /\ iterations[t] \in Nat
    BY <1>0, <2>1, FS_Subset, SumNat
  <2> QED BY <1>0, <2>1, <2>2, <2>3, <2>4
<1>5. CASE Spawn
  <2>1. PICK t \in SubAgent :
            /\ madeBy[t] = 0 /\ live' = live \cup {t}
            /\ UNCHANGED <<iterations, folded, made>>
    BY <1>5, SpawnIs
  <2>2. t \notin live /\ iterations[t] = 0
    BY <2>1 DEF Unmade
  <2>3. LiveSum' = iterations[t] + Sum(iterations, live' \ {t})
    <3>1. IsFiniteSet(live')
      BY ThreadsFinite DEF TypeOK
    <3>2. t \in live' /\ \A u \in live' : iterations[u] \in Nat
      BY <1>0, <2>1, <2>2
    <3>3. Sum(iterations, live') = iterations[t] + Sum(iterations, live' \ {t})
      BY <3>1, <3>2, SumRemove
    <3> QED BY <2>1, <3>3 DEF LiveSum
  <2>4. live' \ {t} = live
    BY <2>1, <2>2
  <2> QED BY <1>0, <2>1, <2>2, <2>3, <2>4 DEF LiveSum
<1>6. ASSUME NEW t \in Thread,
             \/ Start(t) \/ ModelAnswers(t) \/ ModelAborted(t) \/ Ask(t) \/ Execute(t)
             \/ Respond(t) \/ AnswerParent(t) \/ Remove(t) \/ StepFails(t)
      PROVE  UNCHANGED <<iterations, live, folded, made>>
  BY <1>6 DEF Start, ModelAnswers, ModelAborted, Ask, Execute, Respond, AnswerParent,
              Remove, StepFails
<1>7. CASE NextRound \/ NextBatch \/ RootDone \/ Settle \/ Abort \/ Interrupt \/ UNCHANGED vars
  <2>1. UNCHANGED <<iterations, live, folded, made>>
    BY <1>7 DEF NextRound, NextBatch, RootDone, Settle, Abort, Interrupt, vars, memory
  <2> QED BY <1>1, <2>1
<1> QED BY <1>1, <1>2, <1>3, <1>4, <1>5, <1>6, <1>7 DEF Next, Step, Orchestrate

-----------------------------------------------------------------------------
(* The theorems.                                                            *)

LEMMA InvariantStep ==
    ASSUME IInv, [Next]_vars PROVE IInv'
<1>1. TypeOK' /\ Born'
  BY TypeStep, BornStep DEF IInv
<1>2. Closing'
  BY ClosingStep DEF Closing, ClosingOf
<1>3. AnsweredOnce'
  BY AnsweredOnceStep DEF IInv
<1> QED
  BY <1>1, <1>2, <1>3, MessagesStep, ThreadedStep, UnmadeStep, RoundsStep, ChildrenStep,
     CreationsStep, WaitingStep, OneSubAgentStep, PlainRunsOnceStep DEF IInv

LEMMA Invariant == Spec => []IInv
<1>1. Init => IInv
  BY InitIsSound
<1>2. IInv /\ [Next]_vars => IInv'
  BY InvariantStep
<1> QED BY <1>1, <1>2, PTL DEF Spec

(* The types of the state, for every number of calls, threads and turns.    *)
THEOREM AgentTypeCorrect == Spec => []TypeOK
<1>1. IInv => TypeOK
  BY DEF IInv
<1> QED BY <1>1, Invariant, PTL

(* No call is answered twice.                                               *)
THEOREM AnsweredOnceHolds == Spec => []AnsweredOnce
<1>1. IInv => AnsweredOnce
  BY DEF IInv
<1> QED BY <1>1, Invariant, PTL

(* A call has at most one sub-agent.                                        *)
THEOREM OneSubAgentHolds == Spec => []OneSubAgentPerCall
<1>1. IInv => OneSubAgentPerCall
  BY DEF IInv
<1> QED BY <1>1, Invariant, PTL

(* The tools of a message that asks the user nothing run at most once.      *)
THEOREM PlainRunsOnceHolds == Spec => []PlainRunsOnce
<1>1. IInv => PlainRunsOnce
  BY DEF IInv
<1> QED BY <1>1, Invariant, PTL

(* A sub-agent at work has a parent that can take its result.               *)
THEOREM ParentReadyHolds == Spec => []ParentReady
<1>1. IInv => ParentReady
  <2> SUFFICES ASSUME IInv, turn = "running", NEW t \in live \ {Root},
                      pc[t] \notin {"out", "exit"}
               PROVE  Root \in live /\ pc[Root] = "out" /\ Awaits(Root) = {}
    BY DEF ParentReady, IInv, Threaded
  <2>1. t \in SubAgent
    BY DEF IInv, TypeOK, SubAgent
  <2>2. Root \in live
    BY DEF IInv, Threaded
  <2>3. pc[Root] = "out" /\ Awaits(Root) = {}
    BY <2>1 DEF IInv, Rounds, Waiting
  <2> QED BY <2>2, <2>3
<1> QED BY <1>1, Invariant, PTL

(* A settled turn, aborted or not, has said what every thread waits for     *)
(* whose message was not cut off.                                           *)
THEOREM WaitingIsAnnouncedHolds == Spec => []WaitingIsAnnounced
<1> DEFINE Inv == IInv /\ Announcing /\ WaitingIsAnnounced
<1>1. Init => Inv
  BY InitIsSound
<1>2. Inv /\ [Next]_vars => Inv'
  <2> SUFFICES ASSUME Inv, [Next]_vars PROVE Inv'
    OBVIOUS
  <2>1. IInv'
    BY InvariantStep
  <2>2. Announcing'
    BY AnnouncingStep
  <2>3. WaitingIsAnnounced'
    BY AnnouncedStep
  <2> QED BY <2>1, <2>2, <2>3
<1>3. Inv => WaitingIsAnnounced
  OBVIOUS
<1> HIDE DEF Inv
<1> QED BY <1>1, <1>2, <1>3, PTL DEF Spec

(* The turn's metrics count every thread's iterations exactly once.         *)
THEOREM MetricsCountedOnceHolds == Spec => []MetricsCountedOnce
<1> DEFINE Inv == IInv /\ MetricsCountedOnce
<1>1. Init => Inv
  <2> SUFFICES ASSUME Init PROVE MetricsCountedOnce
    BY InitIsSound
  <2>1. live = {} /\ folded = 0 /\ made = 0
    BY DEF Init
  <2>2. LiveSum = 0
    BY <2>1, FS_EmptySet, SumZero DEF LiveSum
  <2> QED BY <2>1, <2>2, MetricsIs
<1>2. Inv /\ [Next]_vars => Inv'
  <2> SUFFICES ASSUME Inv, [Next]_vars PROVE Inv'
    OBVIOUS
  <2>1. IInv'
    BY InvariantStep
  <2>2. MetricsCountedOnce'
    BY <2>1, MetricsStep DEF IInv
  <2> QED BY <2>1, <2>2
<1>3. Inv => MetricsCountedOnce
  OBVIOUS
<1> HIDE DEF Inv
<1> QED BY <1>1, <1>2, <1>3, PTL DEF Spec

-----------------------------------------------------------------------------
(* The refinement of Conversation.  It needs three more facts: the model is *)
(* called with nothing open, an open call is in some thread's message, and  *)
(* the map holds no thread that left the snapshot, but the one being        *)
(* removed.                                                                 *)

Silent == \A t \in Thread : pc[t] = "llm" => Open(t) = {}

Held == \A c \in Call : kind[c] # "unborn" /\ responses[c] = 0 =>
            \E t \in Thread : c \in asked[t]

Present == turn = "running" => \A t \in live : t \in threads \/ pc[t] = "removed"

CInv == IInv /\ Silent /\ Held /\ Present

(* Who comes to call the model has nothing open.                            *)
LEMMA SilentStep ==
    ASSUME CInv, [Next]_vars PROVE Silent'
<1> USE RootIsThread DEF CInv, IInv
<1> SUFFICES ASSUME NEW u \in Thread, pc'[u] = "llm" PROVE Open(u)' = {}
  BY DEF Silent
<1>1. ASSUME pc[u] = "llm", ~ModelAnswers(u) PROVE Open(u)' = {}
  BY <1>1, Shrinks DEF Silent
<1>2. ASSUME NEW t \in Thread,
             \E there \in {"done", "top", "exit", "failed", "exec", "spawn",
                           "answered", "removed"} : pc' = [pc EXCEPT ![t] = there]
      PROVE  pc[u] = "llm" /\ u # t
  BY <1>2 DEF TypeOK
<1>3. ASSUME NEW t \in Thread, ModelAnswers(t) PROVE Open(u)' = {}
  <2>1. \E there \in {"failed", "done", "top"} : pc' = [pc EXCEPT ![t] = there]
    BY <1>3, NewCalls
  <2>2. pc[u] = "llm" /\ u # t
    BY <1>2, <2>1
  <2>3. ASSUME ModelAnswers(u) PROVE FALSE
    <3>1. \E there \in {"failed", "done", "top"} : pc' = [pc EXCEPT ![u] = there]
      BY <2>3, NewCalls
    <3> QED BY <1>2, <3>1
  <2> QED BY <1>1, <2>2, <2>3
<1> SUFFICES ASSUME \A t \in Thread : ~ModelAnswers(t) PROVE Open(u)' = {}
  BY <1>3
<1>4. ASSUME NEW t \in Thread, CallModel(t) PROVE Open(u)' = {}
  <2>1. CASE u = t
    <3>1. Open(u) = {}
      BY <1>4, <2>1 DEF CallModel
    <3> QED BY <3>1, Shrinks
  <2>2. CASE u # t
    <3>1. pc[u] = "llm"
      BY <1>4, <2>2 DEF CallModel, Goto, TypeOK
    <3> QED BY <1>1, <3>1
  <2> QED BY <2>1, <2>2
<1>5. ASSUME NEW t \in Thread,
             \/ Start(t) \/ ModelAborted(t) \/ Ask(t) \/ Execute(t) \/ Respond(t)
             \/ Fold(t) \/ StepFails(t) \/ AnswerParent(t) \/ Remove(t)
      PROVE  Open(u)' = {}
  <2>1. \E there \in {"done", "top", "exit", "failed", "exec", "spawn",
                      "answered", "removed"} : pc' = [pc EXCEPT ![t] = there]
    BY <1>5 DEF Start, ModelAborted, Ask, Execute, Respond, Fold, StepFails, AnswerParent,
                Remove, Goto
  <2> QED BY <1>1, <1>2, <2>1
<1>6. CASE NextRound \/ NextBatch \/ Settle \/ Abort \/ Interrupt \/ UNCHANGED vars
  <2>1. pc[u] = "llm"
    BY <1>6 DEF NextRound, NextBatch, Settle, Abort, Interrupt, vars, memory, TypeOK
  <2> QED BY <1>1, <2>1
<1>7. CASE RootDone \/ Spawn
  <2>1. \E there \in {"exit", "spawn"} : pc' = [pc EXCEPT ![Root] = there]
    BY <1>7, SpawnIs DEF RootDone, Goto
  <2> QED BY <1>1, <1>2, <2>1
<1>8. ASSUME NEW user \in BOOLEAN, NEW R \in SUBSET Call, Begin(user, R)
      PROVE  Open(u)' = {}
  BY <1>8 DEF Begin
<1> QED
  BY <1>4, <1>5, <1>6, <1>7, <1>8 DEF Next, Step, Orchestrate

(* A message that is replaced has all its answers.                          *)
LEMMA HeldStep ==
    ASSUME CInv, [Next]_vars PROVE Held'
<1> USE DEF CInv, IInv
<1> SUFFICES ASSUME NEW c \in Call, kind'[c] # "unborn", responses'[c] = 0
             PROVE  \E t \in Thread : c \in asked'[t]
  BY DEF Held
<1>1. responses[c] = 0
  BY AnswersOpen
<1>2. ASSUME NEW t \in Thread, ModelAnswers(t) PROVE \E u \in Thread : c \in asked'[u]
  <2>1. PICK K \in SUBSET Call :
            /\ \A d \in Call \ K : kind'[d] = kind[d]
            /\ asked' = [asked EXCEPT ![t] = K]
    BY <1>2, NewCalls
  <2>2. asked'[t] = K /\ \A u \in Thread : u # t => asked'[u] = asked[u]
    BY <2>1 DEF TypeOK
  <2>3. CASE c \in K
    BY <2>2, <2>3
  <2>4. CASE c \notin K
    <3>1. PICK u \in Thread : c \in asked[u]
      BY <1>1, <2>1, <2>4 DEF Held
    <3>2. Open(t) = {}
      BY <1>2, NewCalls DEF Silent
    <3>3. u # t
      BY <1>1, <3>1, <3>2 DEF Open
    <3> QED BY <2>2, <3>1, <3>3
  <2> QED BY <2>3, <2>4
<1>3. CASE UNCHANGED <<kind, asked>>
  BY <1>1, <1>3 DEF Held
<1> QED BY <1>2, <1>3, Changes

(* The snapshot and the map differ by the thread being removed.             *)
LEMMA PresentStep ==
    ASSUME CInv, [Next]_vars PROVE Present'
<1> USE RootIsThread DEF CInv, IInv
<1> SUFFICES ASSUME turn' = "running", NEW u \in live'
             PROVE  u \in threads' \/ pc'[u] = "removed"
  BY DEF Present
<1>1. ASSUME NEW user \in BOOLEAN, NEW R \in SUBSET Call, Begin(user, R)
      PROVE  u \in threads'
  BY <1>1 DEF Begin
<1>2. CASE Spawn
  <2>1. PICK t \in SubAgent, there \in {"exit", "spawn"} :
            /\ threads' = threads \cup {t} /\ live' = live \cup {t} /\ turn' = turn
            /\ pc' = [pc EXCEPT ![Root] = there]
    BY <1>2, SpawnIs
  <2>2. Root \in threads
    BY DEF Threaded
  <2> QED BY <2>1, <2>2 DEF Present, TypeOK
<1>3. ASSUME NEW t \in Thread, Remove(t) PROVE u \in threads' \/ pc'[u] = "removed"
  BY <1>3 DEF Remove, Goto, Present, TypeOK
<1>4. ASSUME NEW t \in Thread, Fold(t) PROVE u \in threads' \/ pc'[u] = "removed"
  BY <1>4 DEF Fold, Goto, Present, TypeOK, stored
<1>5. ASSUME UNCHANGED <<threads, live, turn>>,
             pc'[u] = pc[u] \/ pc[u] # "removed"
      PROVE  u \in threads' \/ pc'[u] = "removed"
  BY <1>5 DEF Present
<1>6. ASSUME NEW t \in Thread,
             \/ Start(t) \/ CallModel(t) \/ ModelAborted(t) \/ Ask(t) \/ Execute(t)
             \/ Respond(t) \/ StepFails(t) \/ AnswerParent(t)
      PROVE  u \in threads' \/ pc'[u] = "removed"
  <2>1. pc[t] # "removed" /\ UNCHANGED <<threads, live, turn>>
    BY <1>6 DEF Start, CallModel, ModelAborted, Ask, Execute, Respond, StepFails,
                AnswerParent, stored
  <2>2. \E there \in {"done", "top", "exit", "failed", "llm", "exec", "spawn",
                      "answered"} : pc' = [pc EXCEPT ![t] = there]
    BY <1>6 DEF Start, CallModel, ModelAborted, Ask, Execute, Respond, StepFails,
                AnswerParent, Goto
  <2>3. u \in Thread
    BY <2>1 DEF TypeOK
  <2> QED BY <1>5, <2>1, <2>2, <2>3 DEF TypeOK
<1>7. ASSUME NEW t \in Thread, ModelAnswers(t)
      PROVE  u \in threads' \/ pc'[u] = "removed"
  <2>1. pc[t] = "llm" /\ UNCHANGED <<threads, live, turn>>
    BY <1>7 DEF ModelAnswers
  <2>2. \E there \in {"failed", "done", "top"} : pc' = [pc EXCEPT ![t] = there]
    BY <1>7, NewCalls
  <2>3. u \in Thread
    BY <2>1 DEF TypeOK
  <2> QED BY <1>5, <2>1, <2>2, <2>3 DEF TypeOK
<1>8. CASE NextRound \/ NextBatch
  <2>1. \A t \in Thread : pc[t] # "removed"
    BY <1>8 DEF NextRound, NextBatch, Batched
  <2>2. UNCHANGED <<threads, live, turn>>
    BY <1>8 DEF NextRound, NextBatch, stored
  <2>3. u \in Thread
    BY <2>2 DEF TypeOK
  <2> QED BY <1>5, <2>1, <2>2, <2>3
<1>9. CASE RootDone \/ Abort \/ UNCHANGED vars
  <2>1. UNCHANGED <<threads, live, turn>>
    BY <1>9 DEF RootDone, Abort, vars, stored, memory
  <2>2. u \in Thread
    BY <2>1 DEF TypeOK
  <2>3. pc' = pc \/ (pc' = [pc EXCEPT ![Root] = "exit"] /\ pc[Root] # "removed")
    BY <1>9 DEF RootDone, Abort, vars, memory, Goto
  <2> QED BY <1>5, <2>1, <2>2, <2>3 DEF TypeOK
<1>10. CASE Settle \/ Interrupt
  BY <1>10 DEF Settle, Interrupt
<1> QED
  BY <1>1, <1>2, <1>3, <1>4, <1>6, <1>7, <1>8, <1>9, <1>10 DEF Next, Step, Orchestrate

LEMMA InitIsPresent ==
    ASSUME Init PROVE CInv
<1>1. Silent
  BY DEF Init, Silent
<1>2. Held
  BY DEF Init, Held
<1>3. Present
  BY DEF Init, Present
<1> QED BY <1>1, <1>2, <1>3, InitIsSound DEF CInv

(* What the mapping says of a call.                                         *)
LEMMA StatusIs ==
    ASSUME IInv, NEW c \in Call
    PROVE  /\ StatusOf(c) = "unborn" <=> kind[c] = "unborn"
           /\ StatusOf(c) = "open" <=> kind[c] # "unborn" /\ responses[c] = 0
           /\ StatusOf(c) = "answered" <=> kind[c] # "unborn" /\ responses[c] # 0
<1>1. responses[c] \in Nat /\ responses[c] <= 1
  BY DEF IInv, TypeOK, AnsweredOnce
<1> QED BY <1>1 DEF StatusOf

(* A step that only answers calls.                                          *)
LEMMA AnsweringMaps ==
    ASSUME IInv, IInv', [Next]_vars, UNCHANGED <<asked, kind, madeBy, threads>>
    PROVE  Conv!Next \/ UNCHANGED Conv!vars
<1> DEFINE C == {c \in Call : responses'[c] # responses[c]}
           st == [c \in Call |-> StatusOf(c)]
           ag == [c \in Call |-> AgentOf(c)]
<1>1. \A c \in C : st[c] = "open"
  <2>1. ASSUME NEW c \in C PROVE StatusOf(c) = "open"
    <3>1. responses[c] = 0 /\ \E t \in Thread : c \in asked[t]
      BY AnswersOpen DEF IInv
    <3>2. kind[c] # "unborn"
      BY <3>1 DEF IInv, Messages
    <3> QED BY <3>1, <3>2, StatusIs
  <2> QED BY <2>1
<1>2. st' = [c \in Call |-> IF c \in C THEN "answered" ELSE st[c]]
  <2>1. ASSUME NEW c \in Call, c \in C PROVE StatusOf(c)' = "answered"
    <3>1. kind[c] # "unborn" /\ responses'[c] = 1
      BY <1>1, <2>1, AnswersOpen, StatusIs DEF IInv
    <3> QED BY <3>1 DEF StatusOf
  <2>2. ASSUME NEW c \in Call, c \notin C PROVE StatusOf(c)' = StatusOf(c)
    BY <2>2 DEF StatusOf
  <2> QED BY <2>1, <2>2
<1>3. ag' = ag
  BY DEF AgentOf
<1>4. Conv!Answer(C)
  <2> HIDE DEF C
  <2> QED BY <1>1, <1>2, <1>3 DEF Conv!Answer
<1>5. C \in SUBSET Call
  OBVIOUS
<1> HIDE DEF C, st, ag
<1> QED BY <1>4, <1>5 DEF Conv!Next

LEMMA PresenceStep ==
    ASSUME CInv, [Next]_vars PROVE CInv'
  BY InvariantStep, SilentStep, HeldStep, PresentStep DEF CInv

(* Every call of a message that is replaced was answered, every new one is  *)
(* open.                                                                    *)
LEMMA AskingMaps ==
    ASSUME CInv, NEW t \in Thread, ModelAnswers(t)
    PROVE  \E K \in SUBSET Call : Conv!Ask(t, K)
<1> USE DEF CInv, IInv
<1>1. PICK K \in SUBSET Call :
          /\ \A c \in K : kind[c] = "unborn" /\ kind'[c] # "unborn"
          /\ \A c \in Call \ K : kind'[c] = kind[c]
          /\ asked' = [asked EXCEPT ![t] = K]
  BY NewCalls
<1>2. pc[t] = "llm" /\ UNCHANGED <<threads, madeBy, responses>>
  BY DEF ModelAnswers
<1> DEFINE st == [c \in Call |-> StatusOf(c)]
           ag == [c \in Call |-> AgentOf(c)]
<1>3. \A c \in asked[t] : st[c] = "answered"
  <2>1. ASSUME NEW c \in asked[t] PROVE c \in Call /\ StatusOf(c) = "answered"
    <3>1. c \in Call /\ kind[c] # "unborn"
      BY DEF Messages, TypeOK
    <3>2. responses[c] # 0
      BY <1>2 DEF Silent, Open
    <3> QED BY <3>1, <3>2, StatusIs
  <2> QED BY <2>1
<1>4. \A c \in K : st[c] = "unborn"
  BY <1>1, StatusIs
<1>5. st' = [c \in Call |-> IF c \in K THEN "open" ELSE st[c]]
  <2>1. ASSUME NEW c \in K PROVE StatusOf(c)' = "open"
    <3>1. responses'[c] = 0 /\ kind'[c] # "unborn"
      BY <1>1, <1>2 DEF Messages
    <3> QED BY <3>1 DEF StatusOf
  <2>2. ASSUME NEW c \in Call \ K PROVE StatusOf(c)' = StatusOf(c)
    BY <1>1, <1>2, <2>2 DEF StatusOf
  <2> QED BY <2>1, <2>2
<1>6. ag' = ag
  BY <1>2 DEF AgentOf
<1>7. Conv!Ask(t, K)
  <2> HIDE DEF CInv, IInv
  <2> QED BY <1>1, <1>3, <1>4, <1>5, <1>6 DEF Conv!Ask
<1> QED BY <1>7

(* A sub-agent that is created is the first one of an open call.            *)
LEMMA CreatingMaps ==
    ASSUME CInv, Spawn PROVE \E c \in Call : Conv!Create(c)
<1> USE RootIsThread DEF CInv, IInv, SubAgent
<1> DEFINE st == [c \in Call |-> StatusOf(c)]
           ag == [c \in Call |-> AgentOf(c)]
<1>1. PICK t \in SubAgent, c \in spawns :
          /\ pc[Root] = "spawn" /\ t \notin threads /\ madeBy[t] = 0 /\ c \in Call
          /\ threads' = threads \cup {t}
          /\ madeBy' = [madeBy EXCEPT ![t] = c]
          /\ UNCHANGED <<kind, asked, responses>>
  BY SpawnIs
<1>2. c \in Open(Root) /\ \A u \in SubAgent : madeBy[u] # c
  BY <1>1 DEF Creations
<1>3. st[c] = "open"
  <2>1. kind[c] # "unborn" /\ responses[c] = 0
    BY <1>2 DEF Messages, Open
  <2> QED BY <1>1, <2>1, StatusIs
<1>4. ag[c] = "none"
  <2>1. {u \in Thread \ {Root} : madeBy[u] = c} = {}
    BY <1>2
  <2>2. AgentOf(c) = "none"
    BY <2>1 DEF AgentOf
  <2> QED BY <1>1, <2>2
<1>5. ag' = [ag EXCEPT ![c] = "working"]
  <2>1. AgentOf(c)' = "working"
    <3>1. t \in {u \in Thread \ {Root} : madeBy'[u] = c} \cap threads'
      BY <1>1 DEF TypeOK
    <3> QED BY <3>1 DEF AgentOf
  <2>2. ASSUME NEW d \in Call, d # c PROVE AgentOf(d)' = AgentOf(d)
    <3>1. d # 0
      BY AgentBounds DEF Call
    <3>2. {u \in Thread \ {Root} : madeBy'[u] = d}
              = {u \in Thread \ {Root} : madeBy[u] = d}
      BY <1>1, <2>2, <3>1 DEF TypeOK
    <3>3. {u \in Thread \ {Root} : madeBy[u] = d} \cap threads'
              = {u \in Thread \ {Root} : madeBy[u] = d} \cap threads
      BY <1>1, <3>1
    <3> QED BY <3>2, <3>3 DEF AgentOf
  <2> QED BY <1>1, <2>1, <2>2
<1>6. st' = st /\ asked' = asked
  BY <1>1 DEF StatusOf
<1>7. Conv!Create(c)
  <2> HIDE DEF CInv, IInv, SubAgent
  <2> QED BY <1>3, <1>4, <1>5, <1>6 DEF Conv!Create
<1> QED BY <1>1, <1>7

(* A sub-agent leaves once, after its call was answered.                    *)
LEMMA FinishingMaps ==
    ASSUME CInv, NEW t \in Thread, Remove(t) PROVE \E c \in Call : Conv!Finish(c)
<1> USE RootIsThread DEF CInv, IInv, SubAgent
<1> DEFINE st == [c \in Call |-> StatusOf(c)]
           ag == [c \in Call |-> AgentOf(c)]
<1>1. pc[t] = "answered" /\ threads' = threads \ {t}
      /\ UNCHANGED <<madeBy, kind, asked, responses>>
  BY DEF Remove
<1>2. t \in SubAgent
  BY <1>1 DEF Rounds
<1>3. PICK c : c = madeBy[t] /\ c # 0
  BY <1>1, <1>2 DEF Unmade
<1>4. c \in Call
  BY <1>3 DEF TypeOK
<1>5. t \in threads
  BY <1>1 DEF Threaded, Present
<1>6. st[c] = "answered"
  <2>1. kind[c] = "spawn"
    BY <1>2, <1>3 DEF Children
  <2>2. c \notin Open(Root)
    BY <1>1, <1>2, <1>3 DEF Children
  <2>3. responses[c] # 0
    <3> SUFFICES ASSUME responses[c] = 0 PROVE FALSE
      OBVIOUS
    <3>1. PICK u \in Thread : c \in asked[u]
      BY <1>4, <2>1 DEF Held
    <3>2. u = Root
      BY <2>1, <3>1 DEF Messages
    <3> QED BY <2>2, <3>1, <3>2 DEF Open
  <2>4. StatusOf(c) = "answered"
    BY <1>4, <2>1, <2>3, StatusIs
  <2> QED BY <1>4, <2>4
<1>7. {u \in Thread \ {Root} : madeBy[u] = c} = {t}
  BY <1>2, <1>3 DEF OneSubAgentPerCall
<1>8. ag[c] = "working"
  <2>1. AgentOf(c) = "working"
    BY <1>5, <1>7 DEF AgentOf
  <2> QED BY <1>4, <2>1
<1>9. ag' = [ag EXCEPT ![c] = "gone"]
  <2>1. AgentOf(c)' = "gone"
    <3>1. {u \in Thread \ {Root} : madeBy'[u] = c} = {t} /\ t \notin threads'
      BY <1>1, <1>7
    <3> QED BY <1>1, <3>1 DEF AgentOf
  <2>2. ASSUME NEW d \in Call, d # c PROVE AgentOf(d)' = AgentOf(d)
    <3>1. t \notin {u \in Thread \ {Root} : madeBy[u] = d}
      BY <1>3, <2>2
    <3>2. {u \in Thread \ {Root} : madeBy[u] = d} \cap threads'
              = {u \in Thread \ {Root} : madeBy[u] = d} \cap threads
      BY <1>1, <3>1
    <3> QED BY <1>1, <3>2 DEF AgentOf
  <2> QED BY <1>1, <2>1, <2>2
<1>10. st' = st /\ asked' = asked
  BY <1>1 DEF StatusOf
<1>11. Conv!Finish(c)
  <2> HIDE DEF CInv, IInv, SubAgent
  <2> QED BY <1>6, <1>8, <1>9, <1>10 DEF Conv!Finish
<1> QED BY <1>4, <1>11

LEMMA ConversationStep ==
    ASSUME CInv, [Next]_vars PROVE [Conv!Next]_(Conv!vars)
<1>1. ASSUME NEW t \in Thread, ModelAnswers(t) PROVE Conv!Next
  <2>1. PICK K \in SUBSET Call : Conv!Ask(t, K)
    BY <1>1, AskingMaps
  <2> QED BY <2>1 DEF Conv!Next
<1>2. CASE Spawn
  <2>1. PICK c \in Call : Conv!Create(c)
    BY <1>2, CreatingMaps
  <2> QED BY <2>1 DEF Conv!Next
<1>3. ASSUME NEW t \in Thread, Remove(t) PROVE Conv!Next
  <2>1. PICK c \in Call : Conv!Finish(c)
    BY <1>3, FinishingMaps
  <2> QED BY <2>1 DEF Conv!Next
<1>4. CASE UNCHANGED <<asked, kind, madeBy, threads>>
  <2>1. IInv /\ IInv'
    BY InvariantStep DEF CInv
  <2>2. Conv!Next \/ UNCHANGED Conv!vars
    BY <1>4, <2>1, AnsweringMaps
  <2> QED BY <2>2
<1> QED BY <1>1, <1>2, <1>3, <1>4, Changes

LEMMA ConversationInit ==
    ASSUME Init PROVE Conv!Init
<1>1. \A c \in Call : StatusOf(c) = "unborn"
  BY DEF Init, StatusOf
<1>2. \A c \in Call : AgentOf(c) = "none"
  <2> SUFFICES ASSUME NEW c \in Call PROVE AgentOf(c) = "none"
    OBVIOUS
  <2>1. c # 0
    BY AgentBounds DEF Call
  <2>2. {t \in Thread \ {Root} : madeBy[t] = c} = {}
    BY <2>1 DEF Init
  <2> QED BY <2>2 DEF AgentOf
<1>3. asked = [t \in Thread |-> {}]
  BY DEF Init
<1> QED BY <1>1, <1>2, <1>3 DEF Conv!Init

(* The threads do what Conversation promises: every call of a message is    *)
(* answered once before the model is called again, and a sub-agent works    *)
(* for one open call and leaves after its answer.                           *)
THEOREM KeepsConversationHolds == Spec => KeepsConversation
<1>1. Init => CInv
  BY InitIsPresent
<1>2. CInv /\ [Next]_vars => CInv'
  BY PresenceStep
<1>3. Init => Conv!Init
  BY ConversationInit
<1>4. CInv /\ [Next]_vars => [Conv!Next]_(Conv!vars)
  BY ConversationStep
<1> QED BY <1>1, <1>2, <1>3, <1>4, PTL DEF Spec, KeepsConversation, Conv!Spec
=====
