------------------------------- MODULE Breaker -------------------------------
(* The circuit breaker of the Trust Fabric (services/sre_policy.py and the    *)
(* evaluate route): the outcomes of a module's decisions are kept over a      *)
(* sliding window; when too many of them fail, the circuit opens for a while  *)
(* and requests are refused.  Any outcome recorded while the window is bad    *)
(* opens the circuit anew, a success too.  The state is saved to Redis at     *)
(* every call, as far as Redis answers, and loaded once by a new process.     *)
(*                                                                            *)
(* The model follows one module of the Trust Fabric.  The clock is coarse: a  *)
(* tick is half a window, in which an open circuit closes (the window is 30   *)
(* minutes, the circuit is open for 2); the circuit may also close between    *)
(* two ticks.                                                                 *)
EXTENDS Naturals

CONSTANTS
  Inquiries,   \* requests to evaluate an action
  MinSamples,  \* SRE_MIN_SAMPLES
  MaxSamples   \* bound: the outcomes in a window

ASSUME BreakerAssumption == MinSamples \in Nat \ {0} /\ MaxSamples \in Nat

VARIABLES
  memory,   \* the state of the process
  saved,    \* the state in Redis
  loaded,   \* the process has loaded, or will never load, the saved state
  redis,    \* the process found Redis when it started
  inquiry   \* the requests whose circuit check passed

breakerVars == <<memory, saved, loaded, redis, inquiry>>

-----------------------------------------------------------------------------
Counts  == [good : 0 .. MaxSamples, bad : 0 .. MaxSamples]
Breaker == [fresh : Counts, old : Counts, tripped : BOOLEAN]

Empty   == [good |-> 0, bad |-> 0]
Untried == [fresh |-> Empty, old |-> Empty, tripped |-> FALSE]

BreakerInit ==
  /\ memory = Untried /\ saved = Untried
  /\ loaded = FALSE /\ redis \in BOOLEAN
  /\ inquiry = {}

(* _load_from_redis_unlocked() *)
Loaded == IF loaded \/ ~redis THEN memory ELSE saved

(* _persist_to_redis_unlocked(): a write that fails is ignored. *)
Persist(state) == UNCHANGED saved \/ (redis /\ saved' = state)

Store(state) ==
  memory' = state /\ loaded' = TRUE /\ Persist(state) /\ UNCHANGED redis

Failures(state) == state.fresh.bad + state.old.bad
Samples(state)  == state.fresh.good + state.old.good + Failures(state)

-----------------------------------------------------------------------------
(* check_circuit() *)
Check(i) ==
  /\ i \notin inquiry
  /\ Store(Loaded)
  /\ inquiry' = IF Loaded.tripped THEN inquiry ELSE inquiry \cup {i}

(* The default threshold is one half. *)
Trips(state) == Samples(state) >= MinSamples /\ 2 * Failures(state) >= Samples(state)

(* record_outcome(), after the decision; a denial is a failure. *)
RecordOutcome(i, success) ==
  LET more == IF success THEN [Loaded EXCEPT !.fresh.good = @ + 1]
              ELSE [Loaded EXCEPT !.fresh.bad = @ + 1]
  IN /\ i \in inquiry /\ Samples(Loaded) < MaxSamples
     /\ Store([more EXCEPT !.tripped = @ \/ Trips(more)])
     /\ inquiry' = inquiry \ {i}

(* A decision that raises is not recorded. *)
DecisionRaises(i) ==
  /\ i \in inquiry
  /\ inquiry' = inquiry \ {i}
  /\ UNCHANGED <<memory, saved, loaded, redis>>

(* reset(), by an operator. *)
Reset ==
  /\ Store(Untried)
  /\ UNCHANGED inquiry

-----------------------------------------------------------------------------
(* Mutant of Aged: what is older than the window still counts. *)
AgedKept(state) == [state EXCEPT !.fresh = Empty, !.tripped = FALSE,
                      !.old = IF state.fresh = Empty THEN @ ELSE state.fresh]

(* _trim() *)
Aged(state) == [fresh |-> Empty, old |-> state.fresh, tripped |-> FALSE]

HalfWindowPasses ==
  /\ memory' = Aged(memory) /\ saved' = Aged(saved)
  /\ UNCHANGED <<loaded, redis, inquiry>>

(* The later of the two times is the one in memory. *)
OpenTimePasses ==
  /\ saved' = [saved EXCEPT !.tripped = FALSE]
  /\ \/ memory' = [memory EXCEPT !.tripped = FALSE]
     \/ UNCHANGED memory
  /\ UNCHANGED <<loaded, redis, inquiry>>

(* The process ends and another one starts, with Redis or without. *)
RestartProcess ==
  /\ memory' = Untried /\ loaded' = FALSE /\ redis' \in BOOLEAN
  /\ inquiry' = {}
  /\ UNCHANGED saved

BreakerNext ==
  \/ \E i \in Inquiries :
       Check(i) \/ DecisionRaises(i) \/ \E success \in BOOLEAN : RecordOutcome(i, success)
  \/ Reset \/ HalfWindowPasses \/ OpenTimePasses \/ RestartProcess

(* Time passes. *)
BreakerFairness == WF_breakerVars(HalfWindowPasses)

BreakerSpec == BreakerInit /\ [][BreakerNext]_breakerVars /\ BreakerFairness

-----------------------------------------------------------------------------
BreakerTypeOK ==
  /\ memory \in Breaker /\ saved \in Breaker
  /\ loaded \in BOOLEAN /\ redis \in BOOLEAN
  /\ inquiry \subseteq Inquiries

RecordsFailure == \E i \in Inquiries : RecordOutcome(i, FALSE)

(* Once no decision fails any more the circuit closes for good, although      *)
(* successes reopen it while old failures are in the window, processes        *)
(* restart and what they load may be stale.                                   *)
Recovers == <>[][~RecordsFailure]_breakerVars => <>[](~Loaded.tripped)
=============================================================================
