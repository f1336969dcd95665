--------------------------- MODULE TaskGraphProofs ---------------------------
(* Proofs about TaskGraph, for every number of nodes, sources and seats:      *)
(* types, the evidence a specialist is asked on, the progress of the loop     *)
(* over the layers, and the number of specialists at work; about Breaker,     *)
(* and about the parts of MCProgress together.                                *)
EXTENDS MCProgress, SwarmProofs, FiniteSetTheorems, TLAPS

(* The invariant: a node is listed only once the request has the results it   *)
(* depends on.                                                                *)
ListedOnResults ==
  \A n \in Nodes : node[n] = "listed" => dependsOn[n] \subseteq results

GraphInv == GraphTypeOK /\ AskedOnEvidence /\ ListedOnResults /\ WithinSeats

-----------------------------------------------------------------------------
LEMMA GraphShape ==
  ASSUME GraphTypeOK, NEW n \in Nodes
  PROVE  dependsOn[n] \subseteq Nodes
BY DEF GraphTypeOK, Graphs

LEMMA SeatedFinite ==
  IsFiniteSet(Seated) /\ Cardinality(Seated) \in Nat
<1>1. Seated \in SUBSET Nodes
  BY DEF Seated
<1> QED
  BY <1>1, GraphAssumption, FS_Subset, FS_CardinalityType

(* A node that does not sit down takes no further seat. *)
LEMMA NoFurtherSeat ==
  ASSUME WithinSeats, Seated' \subseteq Seated
  PROVE  WithinSeats'
<1>1. Seated' \in SUBSET Seated
  OBVIOUS
<1>2. IsFiniteSet(Seated') /\ Cardinality(Seated') =< Cardinality(Seated)
  BY <1>1, SeatedFinite, FS_Subset
<1>3. Cardinality(Seated') \in Nat
  BY <1>2, FS_CardinalityType
<1> QED
  BY <1>2, <1>3, SeatedFinite, GraphAssumption DEF WithinSeats

(* What a node that is past the list may become keeps the evidence.           *)
LEMMA NodeMoves ==
  ASSUME GraphInv, NEW n \in Nodes, NEW stage \in Stages, SetNode(n, stage),
         UNCHANGED <<dependsOn, layer, results>>,
         graph' = graph \/ graph' = "failed",
         tried' \in [Nodes -> Seq({"timed_out", "blocked", "empty"})],
         \A i \in Nodes : Len(tried'[i]) =< Sources,
         node[n] \in {"listed", "seated", "asking"},
         stage \in {"seated", "asking", "completed", "raised"} =>
           \A d \in dependsOn[n] : d \in results /\ node[d] = "completed",
         stage # "listed",
         WithinSeats'
  PROVE  GraphInv'
<1>1. GraphTypeOK'
  BY DEF GraphInv, GraphTypeOK, SetNode, Pending, GraphEnded
<1>2. ASSUME NEW m \in Nodes, m # n PROVE node'[m] = node[m]
  BY <1>2 DEF GraphInv, GraphTypeOK, SetNode
<1>3. node'[n] = stage
  BY DEF GraphInv, GraphTypeOK, SetNode
<1>4. AskedOnEvidence'
  <2> SUFFICES ASSUME NEW m \in Nodes,
                      node'[m] \in {"seated", "asking", "completed", "raised"},
                      NEW d \in dependsOn[m]
               PROVE  d \in results /\ node'[d] = "completed"
    BY DEF AskedOnEvidence
  <2>1. d \in Nodes
    BY GraphShape DEF GraphInv
  <2>2. d \in results /\ node[d] = "completed"
    BY <1>2, <1>3 DEF GraphInv, AskedOnEvidence
  <2>3. d # n
    BY <2>2
  <2> QED
    BY <1>2, <2>1, <2>2, <2>3
<1>5. ListedOnResults'
  BY <1>2, <1>3 DEF GraphInv, ListedOnResults
<1> QED
  BY <1>1, <1>4, <1>5 DEF GraphInv

LEMMA TriedFreed ==
  ASSUME GraphTypeOK, NEW n \in Nodes, tried' = [tried EXCEPT ![n] = <<>>]
  PROVE  /\ tried' \in [Nodes -> Seq({"timed_out", "blocked", "empty"})]
         /\ \A i \in Nodes : Len(tried'[i]) =< Sources
<1>1. <<>> \in Seq({"timed_out", "blocked", "empty"}) /\ Len(<<>>) = 0
  OBVIOUS
<1>2. 0 =< Sources
  BY GraphAssumption
<1> QED
  BY <1>1, <1>2 DEF GraphTypeOK

LEMMA NodeStepPreserves ==
  ASSUME GraphInv, NEW n \in Nodes, NodeStep(n)
  PROVE  GraphInv'
<1> USE DEF GraphInv
<1>1. node \in [Nodes -> Stages]
  BY DEF GraphTypeOK
<1>2. tried \in [Nodes -> Seq({"timed_out", "blocked", "empty"})]
      /\ \A i \in Nodes : Len(tried[i]) =< Sources
  BY DEF GraphTypeOK
<1>3. CASE Skip(n)
  <2>1. Seated' \subseteq Seated
    BY <1>1, <1>3 DEF Skip, SetNode, Seated
  <2> QED
    BY <1>2, <1>3, <2>1, NoFurtherSeat, NodeMoves, Zenon DEF Skip, Stages, Returned
<1>4. CASE Sit(n)
  <2>1. \A d \in dependsOn[n] : d \in results /\ node[d] = "completed"
    BY <1>4 DEF Sit, Wanting, ListedOnResults
  <2>2. Seated' \subseteq Seated \cup {n}
    BY <1>1, <1>4 DEF Sit, SetNode, Seated
  <2>3. WithinSeats'
    <3>1. IsFiniteSet(Seated \cup {n}) /\ Cardinality(Seated \cup {n}) =< Cardinality(Seated) + 1
      BY SeatedFinite, FS_AddElement
    <3>2. Seated' \in SUBSET (Seated \cup {n})
      BY <2>2
    <3>3. IsFiniteSet(Seated') /\ Cardinality(Seated') =< Cardinality(Seated \cup {n})
      BY <3>1, <3>2, FS_Subset
    <3>4. Cardinality(Seated') \in Nat /\ Cardinality(Seated \cup {n}) \in Nat
      BY <3>1, <3>3, FS_CardinalityType
    <3> QED
      BY <1>4, <3>1, <3>3, <3>4, SeatedFinite, GraphAssumption DEF Sit, WithinSeats
  <2>4. "seated" \in Stages /\ node[n] = "listed"
    BY <1>4 DEF Sit, Stages
  <2> QED
    BY <1>2, <1>4, <2>1, <2>3, <2>4, NodeMoves DEF Sit
<1>5. ASSUME node[n] \in {"seated", "asking"}
      PROVE  \A d \in dependsOn[n] : d \in results /\ node[d] = "completed"
  BY <1>5 DEF AskedOnEvidence
<1>6. CASE Authorize(n)
  <2> PICK stage \in {"asking", "blocked"} : SetNode(n, stage)
    BY <1>6 DEF Authorize
  <2>1. Seated' \subseteq Seated
    BY <1>1, <1>6 DEF Authorize, SetNode, Seated
  <2> QED
    BY <1>2, <1>5, <1>6, <2>1, NoFurtherSeat, NodeMoves DEF Authorize, Stages, Returned
<1>7. CASE Ask(n)
  <2> PICK status \in {"timed_out", "blocked", "empty"} :
             tried' = [tried EXCEPT ![n] = Append(@, status)]
    BY <1>7 DEF Ask
  <2>1. Append(tried[n], status) \in Seq({"timed_out", "blocked", "empty"})
        /\ Len(Append(tried[n], status)) = Len(tried[n]) + 1
    BY <1>2
  <2>2. Len(tried[n]) \in Nat
    BY <1>2
  <2>3. Len(Append(tried[n], status)) =< Sources
    BY <1>7, <2>1, <2>2, GraphAssumption DEF Ask
  <2>4. \A i \in Nodes : Len(tried'[i]) =< Sources
    BY <1>2, <2>3
  <2>5. GraphTypeOK'
    BY <1>2, <1>7, <2>1, <2>4 DEF Ask, GraphTypeOK, Pending
  <2>6. AskedOnEvidence' /\ ListedOnResults' /\ WithinSeats'
    BY <1>7 DEF Ask, AskedOnEvidence, ListedOnResults, WithinSeats, Seated
  <2> QED
    BY <2>5, <2>6
<1>8. CASE Answer(n) \/ Exhaust(n) \/ RaiseNode(n)
  <2>1. PICK stage \in {"completed", "timed_out", "blocked", "unavailable", "raised"} :
               FreeNode(n, stage)
    BY <1>8 DEF Answer, Exhaust, RaiseNode
  <2>2. node[n] \in {"seated", "asking"}
    BY <1>8 DEF Answer, Exhaust, RaiseNode
  <2>3. Seated' \subseteq Seated
    BY <1>1, <2>1 DEF FreeNode, SetNode, Seated
  <2>4. WithinSeats'
    BY <2>3, NoFurtherSeat
  <2>5. UNCHANGED <<dependsOn, layer, results>> /\ (graph' = graph \/ graph' = "failed")
    BY <1>8 DEF Answer, Exhaust, RaiseNode
  <2>6. SetNode(n, stage) /\ stage \in Stages /\ stage # "listed"
    BY <2>1 DEF FreeNode, Stages, Returned
  <2>7. /\ tried' \in [Nodes -> Seq({"timed_out", "blocked", "empty"})]
        /\ \A i \in Nodes : Len(tried'[i]) =< Sources
    BY <2>1, TriedFreed DEF FreeNode
  <2> QED
    BY <1>5, <2>2, <2>4, <2>5, <2>6, <2>7, NodeMoves
<1> QED
  BY <1>3, <1>4, <1>6, <1>7, <1>8 DEF NodeStep

-----------------------------------------------------------------------------
LEMMA RequestStepPreserves ==
  ASSUME GraphInv, RequestStep
  PROVE  GraphInv'
<1> USE DEF GraphInv
<1>1. node \in [Nodes -> Stages] /\ layer \subseteq Pending /\ results \subseteq Nodes
  BY DEF GraphTypeOK
<1>2. CASE Decide
  <2>1. CASE UNCHANGED node
    BY <1>2, <2>1
    DEF Decide, GraphTypeOK, GraphEnded, Pending, AskedOnEvidence, ListedOnResults,
        WithinSeats, Seated
  <2>2. CASE graph' = "blocked" /\ node' = [n \in Nodes |-> "blocked"]
    <3>1. GraphTypeOK'
      BY <1>2, <2>2 DEF Decide, GraphTypeOK, GraphEnded, Pending, Stages, Returned
    <3>2. AskedOnEvidence' /\ ListedOnResults'
      BY <2>2 DEF AskedOnEvidence, ListedOnResults
    <3>3. Seated' \subseteq Seated
      BY <2>2 DEF Seated
    <3> QED
      BY <3>1, <3>2, <3>3, NoFurtherSeat
  <2> QED
    BY <1>2, <2>1, <2>2 DEF Decide
<1>3. CASE BeginLayer
  <2>1. \A n \in Nodes : node'[n] = IF n \in Ready THEN "listed" ELSE node[n]
    BY <1>3 DEF BeginLayer
  <2>2. Ready \subseteq Pending /\ Pending \subseteq Nodes
    BY DEF Ready, Pending
  <2>3. GraphTypeOK'
    BY <1>3, <2>1, <2>2 DEF BeginLayer, GraphTypeOK, Pending, Stages
  <2>4. AskedOnEvidence'
    <3> SUFFICES ASSUME NEW m \in Nodes,
                        node'[m] \in {"seated", "asking", "completed", "raised"},
                        NEW d \in dependsOn[m]
                 PROVE  d \in results /\ node'[d] = "completed"
      BY <1>3 DEF BeginLayer, AskedOnEvidence
    <3>1. d \in Nodes /\ d \in results /\ node[d] = "completed"
      BY <2>1, GraphShape DEF AskedOnEvidence
    <3> QED
      BY <2>1, <2>2, <3>1 DEF Pending
  <2>5. ListedOnResults'
    BY <1>3, <2>1 DEF BeginLayer, ListedOnResults, Ready
  <2>6. Seated' \subseteq Seated
    BY <2>1 DEF Seated
  <2> QED
    BY <2>3, <2>4, <2>5, <2>6, NoFurtherSeat
<1>4. CASE EndLayer
  BY <1>1, <1>4
  DEF EndLayer, GraphTypeOK, Pending, AskedOnEvidence, ListedOnResults, WithinSeats, Seated
<1>5. CASE Conclude
  BY <1>5
  DEF Conclude, GraphTypeOK, GraphEnded, Pending, AskedOnEvidence, ListedOnResults,
      WithinSeats, Seated
<1> QED
  BY <1>2, <1>3, <1>4, <1>5 DEF RequestStep

LEMMA GraphInitially == GraphInit => GraphInv
<1> SUFFICES ASSUME GraphInit PROVE GraphInv
  OBVIOUS
<1>1. <<>> \in Seq({"timed_out", "blocked", "empty"}) /\ Len(<<>>) = 0 /\ 0 =< Sources
  BY GraphAssumption
<1>2. GraphTypeOK
  BY <1>1 DEF GraphInit, GraphTypeOK, Stages, Pending
<1>3. AskedOnEvidence /\ ListedOnResults
  BY DEF GraphInit, AskedOnEvidence, ListedOnResults
<1>4. Seated = {}
  BY DEF GraphInit, Seated
<1>5. WithinSeats
  BY <1>4, FS_EmptySet, GraphAssumption DEF WithinSeats
<1> QED
  BY <1>2, <1>3, <1>5 DEF GraphInv

LEMMA GraphStep == GraphInv /\ [GraphNext]_graphVars => GraphInv'
<1> SUFFICES ASSUME GraphInv, [GraphNext]_graphVars PROVE GraphInv'
  OBVIOUS
<1>1. CASE RequestStep
  BY <1>1, RequestStepPreserves
<1>2. CASE \E n \in Nodes : NodeStep(n)
  BY <1>2, NodeStepPreserves
<1>3. CASE UNCHANGED graphVars
  BY <1>3
  DEF graphVars, GraphInv, GraphTypeOK, Pending, AskedOnEvidence, ListedOnResults,
      WithinSeats, Seated
<1> QED
  BY <1>1, <1>2, <1>3 DEF GraphNext

LEMMA GraphAlways == GraphSpec => []GraphInv
<1> QED
  BY GraphStep, GraphInitially, PTL DEF GraphSpec

-----------------------------------------------------------------------------
(* The state of a request keeps its type, for any graph and any sources.      *)
THEOREM GraphTypeCorrect == GraphSpec => []GraphTypeOK
<1>1. GraphInv => GraphTypeOK
  BY DEF GraphInv
<1> QED
  BY <1>1, GraphAlways, PTL

(* No specialist is asked on the result of a node that was skipped, denied,   *)
(* is still at work or has raised, for any graph, sources and seats.          *)
THEOREM EvidenceFirst == GraphSpec => []AskedOnEvidence
<1>1. GraphInv => AskedOnEvidence
  BY DEF GraphInv
<1> QED
  BY <1>1, GraphAlways, PTL

(* Every gather of the loop has a node to wait for: what validate_graph()     *)
(* accepts is enough for the loop to come to its end.                         *)
THEOREM LayerIsNeverEmpty == GraphSpec => []NeverStuck
<1>1. GraphInv => NeverStuck
  <2> SUFFICES ASSUME GraphInv, Pending # {} PROVE Ready # {}
    BY DEF NeverStuck
  <2>1. Pending \in (SUBSET Nodes) \ {{}} /\ Acyclic(dependsOn)
    BY DEF GraphInv, GraphTypeOK, Graphs, Pending
  <2>2. PICK n \in Pending : dependsOn[n] \cap Pending = {}
    BY <2>1 DEF Acyclic
  <2>3. dependsOn[n] \subseteq Nodes
    BY GraphShape DEF GraphInv, Pending
  <2> QED
    BY <2>2, <2>3 DEF Ready, Pending
<1> QED
  BY <1>1, GraphAlways, PTL

(* The semaphore bounds the specialists at work, also after a failure.        *)
THEOREM SeatsSuffice == GraphSpec => []WithinSeats
<1>1. GraphInv => WithinSeats
  BY DEF GraphInv
<1> QED
  BY <1>1, GraphAlways, PTL

-----------------------------------------------------------------------------
(* The circuit breaker.  What a process works on is a state of the breaker,   *)
(* the one in memory or the one saved.                                        *)
LEMMA LoadedType == ASSUME BreakerTypeOK PROVE Loaded \in {memory, saved} /\ Loaded \in Breaker
BY DEF Loaded, BreakerTypeOK

LEMMA EmptyType == Untried \in Breaker
BY BreakerAssumption DEF Untried, Empty, Breaker, Counts

(* What is stored after an outcome, with its parts. *)
LEMMA OutcomeStored ==
  ASSUME BreakerTypeOK, NEW i \in Inquiries, NEW success \in BOOLEAN,
         RecordOutcome(i, success)
  PROVE  \E next \in Breaker :
           /\ memory' = next /\ saved' \in {saved, next}
           /\ loaded' = TRUE /\ redis' = redis /\ inquiry' \subseteq Inquiries
           /\ next.old = Loaded.old
           /\ success => next.fresh.bad = Loaded.fresh.bad
           /\ success /\ Failures(Loaded) = 0 /\ ~Loaded.tripped => ~next.tripped
<1> DEFINE now   == Loaded
           fresh == IF success THEN [now.fresh EXCEPT !.good = @ + 1]
                    ELSE [now.fresh EXCEPT !.bad = @ + 1]
           more  == [now EXCEPT !.fresh = fresh]
           trip  == now.tripped \/ Trips(more)
           next  == [more EXCEPT !.tripped = trip]
<1>1. /\ now \in Breaker /\ now.fresh \in Counts /\ now.old \in Counts
      /\ now.tripped \in BOOLEAN
  BY LoadedType DEF Breaker
<1>2. MinSamples \in Nat \ {0} /\ MaxSamples \in Nat
  BY BreakerAssumption DEF BreakerAssumption
<1>3. Samples(now) < MaxSamples
  BY DEF RecordOutcome
<1>4. /\ fresh \in Counts
      /\ success => fresh.bad = now.fresh.bad /\ fresh.good = now.fresh.good + 1
  BY <1>1, <1>2, <1>3 DEF Samples, Failures, Counts
<1>5. /\ more \in Breaker /\ more.old = now.old /\ more.fresh = fresh
      /\ more.tripped = now.tripped
  <2> HIDE DEF fresh, now
  <2> QED
    BY <1>1, <1>4 DEF Breaker
<1>6. trip \in BOOLEAN
  <2>1. Trips(more) \in BOOLEAN
    BY DEF Trips
  <2> QED
    BY <1>1, <2>1
<1>7. /\ next \in Breaker /\ next.old = now.old /\ next.fresh = fresh
      /\ next.tripped = trip
  <2> HIDE DEF more, trip, now, fresh
  <2> QED
    BY <1>5, <1>6 DEF Breaker
<1>8. success /\ Failures(now) = 0 => ~Trips(more)
  <2> SUFFICES ASSUME success, Failures(now) = 0 PROVE ~Trips(more)
    OBVIOUS
  <2>1. now.fresh.bad = 0 /\ now.old.bad = 0
    BY <1>1 DEF Failures, Counts
  <2>2. Failures(more) = 0
    <3> HIDE DEF more, fresh, now
    <3> QED
      BY <1>4, <1>5, <2>1 DEF Failures
  <2>3. Samples(more) \in Nat
    <3> HIDE DEF more, fresh, now
    <3> QED
      BY <1>5, <1>4, <1>1, <1>2 DEF Samples, Failures, Counts, Breaker
  <2> HIDE DEF more
  <2> QED
    BY <1>2, <2>2, <2>3 DEF Trips
<1>9. next = [(IF success THEN [Loaded EXCEPT !.fresh.good = @ + 1]
               ELSE [Loaded EXCEPT !.fresh.bad = @ + 1])
                EXCEPT !.tripped = @ \/ Trips(IF success
                         THEN [Loaded EXCEPT !.fresh.good = @ + 1]
                         ELSE [Loaded EXCEPT !.fresh.bad = @ + 1])]
  <2>1. more = IF success THEN [Loaded EXCEPT !.fresh.good = @ + 1]
               ELSE [Loaded EXCEPT !.fresh.bad = @ + 1]
    OBVIOUS
  <2> HIDE DEF more
  <2> QED
    BY <2>1, <1>5
<1>10. Store(next) /\ inquiry' = inquiry \ {i}
  BY <1>9 DEF RecordOutcome
<1>11. /\ memory' = next /\ saved' \in {saved, next}
       /\ loaded' = TRUE /\ redis' = redis /\ inquiry' \subseteq Inquiries
  <2> HIDE DEF next
  <2> QED
    BY <1>10 DEF Store, Persist, BreakerTypeOK
<1> HIDE DEF next
<1> QED
  BY <1>4, <1>7, <1>8, <1>11

LEMMA AgedType ==
  ASSUME NEW state \in Breaker
  PROVE  /\ Aged(state) \in Breaker /\ ~Aged(state).tripped
         /\ Aged(state).fresh = Empty /\ Aged(state).old = state.fresh
         /\ [state EXCEPT !.tripped = FALSE] \in Breaker
<1>1. Empty \in Counts
  BY BreakerAssumption DEF Empty, Counts, BreakerAssumption
<1>2. state.fresh \in Counts
  BY DEF Breaker
<1>3. Aged(state) = [fresh |-> Empty, old |-> state.fresh, tripped |-> FALSE]
  BY DEF Aged
<1>4. Aged(state) \in Breaker
  BY <1>1, <1>2, <1>3 DEF Breaker
<1>5. [state EXCEPT !.tripped = FALSE] \in Breaker
  BY DEF Breaker
<1> QED
  BY <1>3, <1>4, <1>5

LEMMA BreakerInitially == BreakerInit => BreakerTypeOK
BY EmptyType DEF BreakerInit, BreakerTypeOK

LEMMA BreakerStep == BreakerTypeOK /\ [BreakerNext]_breakerVars => BreakerTypeOK'
<1> SUFFICES ASSUME BreakerTypeOK, [BreakerNext]_breakerVars PROVE BreakerTypeOK'
  OBVIOUS
<1>1. ASSUME NEW i \in Inquiries, Check(i) PROVE BreakerTypeOK'
  BY <1>1, LoadedType DEF Check, Store, Persist, BreakerTypeOK
<1>2. ASSUME NEW i \in Inquiries, NEW success \in BOOLEAN, RecordOutcome(i, success)
      PROVE  BreakerTypeOK'
  BY <1>2, OutcomeStored DEF BreakerTypeOK
<1>3. ASSUME NEW i \in Inquiries, DecisionRaises(i) PROVE BreakerTypeOK'
  BY <1>3 DEF DecisionRaises, BreakerTypeOK
<1>4. CASE Reset
  BY <1>4, EmptyType DEF Reset, Store, Persist, BreakerTypeOK
<1>5. CASE HalfWindowPasses
  BY <1>5, AgedType DEF HalfWindowPasses, BreakerTypeOK
<1>6. CASE OpenTimePasses
  BY <1>6, AgedType DEF OpenTimePasses, BreakerTypeOK
<1>7. CASE RestartProcess
  BY <1>7, EmptyType DEF RestartProcess, BreakerTypeOK
<1>8. CASE UNCHANGED breakerVars
  BY <1>8 DEF breakerVars, BreakerTypeOK
<1> QED
  BY <1>1, <1>2, <1>3, <1>4, <1>5, <1>6, <1>7, <1>8 DEF BreakerNext

(* No failure since the last half window; none in the window at all. *)
Quiet(state) == state.fresh.bad = 0
Clean(state) == Quiet(state) /\ state.old.bad = 0 /\ ~state.tripped
AllQuiet == Quiet(memory) /\ Quiet(saved)
AllClean == Clean(memory) /\ Clean(saved)

(* What Recovers rests on, besides the passing of time: while no decision     *)
(* fails, what was not recorded since the last half window stays unrecorded,  *)
(* in the process and in Redis, and after two half windows both are clean and *)
(* stay so, whatever is loaded, saved or lost: no success reopens the circuit *)
(* then.                                                                      *)
QuietThenClean ==
  [][/\ HalfWindowPasses => AllQuiet'
     /\ AllQuiet /\ ~RecordsFailure => AllQuiet'
     /\ AllQuiet /\ HalfWindowPasses => AllClean'
     /\ AllClean /\ ~RecordsFailure => AllClean']_breakerVars

LEMMA EmptyClean == Clean(Untried) /\ Quiet(Untried) /\ Empty.bad = 0
BY DEF Clean, Quiet, Untried, Empty

LEMMA QuietStep ==
  ASSUME BreakerTypeOK, BreakerNext, ~RecordsFailure
  PROVE  (AllQuiet => AllQuiet') /\ (AllClean => AllClean')
<1>0. /\ memory \in Breaker /\ saved \in Breaker
      /\ AllQuiet => Quiet(Loaded)
      /\ AllClean => Clean(Loaded)
  BY LoadedType DEF BreakerTypeOK, AllQuiet, AllClean
<1>1. ASSUME NEW next, Quiet(next) \/ ~AllQuiet, Clean(next) \/ ~AllClean,
             memory' = next, saved' \in {saved, next}
      PROVE  (AllQuiet => AllQuiet') /\ (AllClean => AllClean')
  BY <1>1 DEF AllQuiet, AllClean
<1>2. ASSUME NEW i \in Inquiries, Check(i)
      PROVE  (AllQuiet => AllQuiet') /\ (AllClean => AllClean')
  BY <1>0, <1>1, <1>2 DEF Check, Store, Persist
<1>3. ASSUME NEW i \in Inquiries, NEW success \in BOOLEAN, RecordOutcome(i, success)
      PROVE  (AllQuiet => AllQuiet') /\ (AllClean => AllClean')
  <2>1. success
    BY <1>3 DEF RecordsFailure
  <2>2. PICK next \in Breaker :
          /\ memory' = next /\ saved' \in {saved, next}
          /\ next.old = Loaded.old /\ next.fresh.bad = Loaded.fresh.bad
          /\ Failures(Loaded) = 0 /\ ~Loaded.tripped => ~next.tripped
    BY <1>3, <2>1, OutcomeStored
  <2>3. Clean(Loaded) => Failures(Loaded) = 0 /\ ~Loaded.tripped
    BY DEF Clean, Quiet, Failures
  <2>4. (Quiet(Loaded) => Quiet(next)) /\ (Clean(Loaded) => Clean(next))
    BY <2>2, <2>3 DEF Clean, Quiet
  <2> QED
    BY <1>0, <1>1, <2>2, <2>4
<1>4. CASE Reset
  BY <1>1, <1>4, EmptyClean DEF Reset, Store, Persist
<1>5. CASE HalfWindowPasses
  BY <1>0, <1>5, AgedType, EmptyClean
     DEF HalfWindowPasses, AllQuiet, AllClean, Clean, Quiet
<1>6. CASE OpenTimePasses
  <2>1. \A state \in Breaker :
          /\ [state EXCEPT !.tripped = FALSE].fresh = state.fresh
          /\ [state EXCEPT !.tripped = FALSE].old = state.old
          /\ ~[state EXCEPT !.tripped = FALSE].tripped
    BY DEF Breaker
  <2> QED
    BY <1>0, <1>6, <2>1 DEF OpenTimePasses, AllQuiet, AllClean, Clean, Quiet
<1>7. CASE RestartProcess
  BY <1>7, EmptyClean DEF RestartProcess, AllQuiet, AllClean
<1>8. ASSUME NEW i \in Inquiries, DecisionRaises(i)
      PROVE  (AllQuiet => AllQuiet') /\ (AllClean => AllClean')
  BY <1>8 DEF DecisionRaises, AllQuiet, AllClean
<1> QED
  BY <1>2, <1>3, <1>4, <1>5, <1>6, <1>7, <1>8 DEF BreakerNext

LEMMA BreakerAlways == BreakerSpec => []BreakerTypeOK
<1> QED
  BY BreakerInitially, BreakerStep, PTL DEF BreakerSpec

(* QuietThenClean, for any number of requests and any size of the window, as  *)
(* long as one outcome at least is needed to open the circuit.                *)
THEOREM BreakerCalmsDown == BreakerSpec => QuietThenClean
<1> DEFINE Calm == /\ HalfWindowPasses => AllQuiet'
                   /\ AllQuiet /\ ~RecordsFailure => AllQuiet'
                   /\ AllQuiet /\ HalfWindowPasses => AllClean'
                   /\ AllClean /\ ~RecordsFailure => AllClean'
<1>1. ASSUME BreakerTypeOK, [BreakerNext]_breakerVars PROVE [Calm]_breakerVars
  <2> SUFFICES ASSUME BreakerNext PROVE Calm
    BY <1>1
  <2>1. HalfWindowPasses => AllQuiet'
    BY <1>1, AgedType, EmptyClean
       DEF HalfWindowPasses, BreakerTypeOK, AllQuiet, Quiet
  <2>2. AllQuiet /\ HalfWindowPasses => AllClean'
    BY <1>1, AgedType, EmptyClean
       DEF HalfWindowPasses, BreakerTypeOK, AllQuiet, AllClean, Clean, Quiet
  <2> QED
    BY <1>1, <2>1, <2>2, QuietStep
<1> QED
  BY <1>1, BreakerAlways, PTL DEF BreakerSpec, QuietThenClean

-----------------------------------------------------------------------------
(* The parts of the progress instance together: each behaves as it does alone *)
(* or stays where it is, the graph from a request that policy blocked, too.   *)
LEMMA AtRest == GraphAtRest => GraphInv
<1> SUFFICES ASSUME GraphAtRest PROVE GraphInv
  OBVIOUS
<1>1. <<>> \in Seq({"timed_out", "blocked", "empty"}) /\ Len(<<>>) = 0 /\ 0 =< Sources
  BY GraphAssumption DEF GraphAssumption
<1>2. dependsOn \in Graphs
  BY DEF GraphAtRest, Graphs, Acyclic
<1>3. GraphTypeOK
  BY <1>1, <1>2 DEF GraphAtRest, GraphTypeOK, Stages, Returned, GraphEnded, Pending
<1>4. AskedOnEvidence /\ ListedOnResults
  BY DEF GraphAtRest, AskedOnEvidence, ListedOnResults
<1>5. Seated = {}
  BY DEF GraphAtRest, Seated
<1>6. WithinSeats
  BY <1>5, FS_EmptySet, GraphAssumption DEF WithinSeats, GraphAssumption
<1> QED
  BY <1>3, <1>4, <1>6 DEF GraphInv

LEMMA ProgressAlways == ProgressSpec => [](MissionInv /\ GraphInv /\ BreakerTypeOK)
<1>1. ProgressInit => MissionInv /\ GraphInv /\ BreakerTypeOK
  BY MissionInitially, GraphInitially, AtRest, BreakerInitially DEF ProgressInit
<1>2. [ProgressNext]_progress => /\ [MissionNext]_allVars
                                 /\ [GraphNext]_graphVars
                                 /\ [BreakerNext]_breakerVars
  <2>1. CASE UNCHANGED progress
    BY <2>1 DEF progress
  <2>2. CASE ProgressNext
    BY <2>2 DEF ProgressNext, MissionsMove, GraphMoves, BreakerMoves
  <2> QED
    BY <2>1, <2>2
<1> QED
  BY <1>1, <1>2, MissionStep, GraphStep, BreakerStep, PTL DEF ProgressSpec

(* Types, and the evidence a specialist is asked on, when missions, requests  *)
(* and breakers run together.                                                 *)
THEOREM ProgressTypeCorrect == ProgressSpec => [](ProgressTypeOK /\ AskedOnEvidence)
<1>1. MissionInv /\ GraphInv /\ BreakerTypeOK => ProgressTypeOK /\ AskedOnEvidence
  BY DEF MissionInv, GraphInv, ProgressTypeOK
<1> QED
  BY <1>1, ProgressAlways, PTL
=============================================================================
