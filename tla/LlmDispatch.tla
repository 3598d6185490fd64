----------------------------- MODULE LlmDispatch -----------------------------
(***************************************************************************)
(* llmJson (lib/llm/index.js): concurrent calls walk a chain of providers, *)
(* each behind a semaphore (util/semaphore.js) and a circuit breaker       *)
(* (util/circuit-breaker.js, the in-memory one), until one answers or the  *)
(* chain's deadline has passed.                                            *)
(*                                                                         *)
(* Prompts and answers are left out. Clocks are abstracted to what they    *)
(* decide: whether a call's deadline has passed, whether a slot timer      *)
(* fires, which failures are still in the window, whether an open circuit  *)
(* has been open long enough.                                              *)
(***************************************************************************)
EXTENDS Integers, Sequences, SequencesExt, FiniteSets

CONSTANTS
  Call,       \* concurrently running llmJson calls
  Provider,   \* chain entries
  Chain,      \* the entries in the order they are tried, duplicates removed
  Kind,       \* how an entry's class reports to the breaker, see below
  SemKey,     \* semaphore keys
  Sem,        \* the semaphore of an entry (buildChainKey)
  Limit,      \* its number of slots (getConcurrencyLimit)
  Name,       \* provider names: the keys of the circuit breaker
  NameOf,     \* the provider name of an entry
  Threshold,  \* LLM_CB_FAILURE_THRESHOLD
  Deadline    \* LLM_CHAIN_TIMEOUT_MS > 0

(* "compatible": OpenAICompatibleProvider and its subclasses; "direct":    *)
(* Ollama, Anthropic, Cohere, GoogleGemini; "cli": the five CLI providers. *)
ProviderKind == {"compatible", "direct", "cli"}

ASSUME CallAssumption == IsFiniteSet(Call)
ASSUME ChainAssumption == /\ Chain \in Seq(Provider)
                          /\ Kind \in [Provider -> ProviderKind]
                          /\ Sem \in [Provider -> SemKey]
                          /\ NameOf \in [Provider -> Name]
                          /\ Deadline \in BOOLEAN
ASSUME LimitAssumption == Limit \in [SemKey -> Nat \ {0}]
ASSUME ThresholdAssumption == Threshold \in Nat \ {0}

VARIABLES
  active,    \* _active of every semaphore
  waiters,   \* _waiters of every semaphore
  task,      \* what every call is doing
  failures,  \* failures kept in the window, per provider name
  circuit,   \* closed; open; lapsed: open, but OPEN_DURATION_MS has passed
  streak     \* history: failed requests since the last success

vars == <<active, waiters, task, failures, circuit, streak>>

(* pc: build: asking the providers for availability; next: the loop head;  *)
(* wait: queued for a slot; held: has one; request: the provider works;    *)
(* leave: the finally block.                                               *)
Task == [pc : {"idle", "build", "next", "wait", "held", "request", "leave"},
         at : Nat \ {0}, todo : Seq(Provider), late : BOOLEAN, ok : BOOLEAN]

Idle == [pc |-> "idle", at |-> 1, todo |-> <<>>, late |-> FALSE, ok |-> FALSE]

TypeOK ==
  /\ active \in [SemKey -> Nat]
  /\ waiters \in [SemKey -> Seq(Call)]
  /\ task \in [Call -> Task]
  /\ \A c \in Call : task[c].pc \in {"wait", "held", "request", "leave"} => task[c].todo # <<>>
  /\ failures \in [Name -> 0..Threshold]
  /\ circuit \in [Name -> {"closed", "open", "lapsed"}]
  /\ streak \in [Name -> 0..Threshold]

Least(a, b) == IF a < b THEN a ELSE b

Entry(c) == Head(task[c].todo)
SlotOf(c) == Sem[Entry(c)]
Holds(c) == task[c].pc \in {"held", "request", "leave"}

\* the loop goes on with the next entry
NextEntry(c) == [task[c] EXCEPT !.pc = "next", !.todo = Tail(@)]

\* isOpen: an open circuit whose time is up closes when it is looked at
Probe(n) == circuit' = [circuit EXCEPT ![n] = IF @ = "lapsed" THEN "closed" ELSE @]

----------------------------------------------------------------------------
Init ==
  /\ active = [s \in SemKey |-> 0]
  /\ waiters = [s \in SemKey |-> <<>>]
  /\ task = [c \in Call |-> Idle]
  /\ failures = [n \in Name |-> 0]
  /\ circuit = [n \in Name |-> "closed"]
  /\ streak = [n \in Name |-> 0]

Start(c) ==
  /\ task[c].pc = "idle"
  /\ task' = [task EXCEPT ![c].pc = "build"]
  /\ UNCHANGED <<active, waiters, failures, circuit, streak>>

\* the chain's time is up; the call notices at its next check, and one that
\* is past its checks for now may as well be late when it makes the next
Expire(c) ==
  /\ Deadline /\ task[c].pc \in {"build", "next", "wait", "held"} /\ ~task[c].late
  /\ task' = [task EXCEPT ![c].late = TRUE]
  /\ UNCHANGED <<active, waiters, failures, circuit, streak>>

(***************************************************************************)
(* buildChain: entry after entry is asked whether it is available. The     *)
(* compatible classes ask the breaker, the direct ones only look at their  *)
(* configuration (and were left out of Chain if it is incomplete), a CLI   *)
(* is looked for. The 429 cool-down is kept in the provider object, which  *)
(* buildChain has just created, so it never excludes an entry.             *)
(***************************************************************************)
Check(c) ==
  LET p == Chain[task[c].at]
      n == NameOf[p]
  IN
  /\ task[c].pc = "build" /\ ~task[c].late /\ task[c].at <= Len(Chain)
  /\ \E usable \in BOOLEAN :
       /\ Kind[p] = "compatible" => usable = (circuit[n] # "open")
       /\ Kind[p] = "direct" => usable
       /\ task' = [task EXCEPT ![c] =
                    [@ EXCEPT !.at = task[c].at + 1,
                                !.todo = IF usable THEN Append(task[c].todo, p) ELSE task[c].todo]]
  /\ IF Kind[p] = "compatible" THEN Probe(n) ELSE UNCHANGED circuit
  /\ UNCHANGED <<active, waiters, failures, streak>>

Built(c) ==
  /\ task[c].pc = "build" /\ (task[c].late \/ task[c].at > Len(Chain))
  /\ task' = [task EXCEPT ![c] = IF @.late \/ @.todo = <<>> THEN Idle
                                 ELSE [@ EXCEPT !.pc = "next"]]
  /\ UNCHANGED <<active, waiters, failures, circuit, streak>>

----------------------------------------------------------------------------
\* llmJson rejects: every provider has failed, or the deadline has passed
Exhausted(c) ==
  /\ task[c].pc = "next" /\ (task[c].late \/ task[c].todo = <<>>)
  /\ task' = [task EXCEPT ![c] = Idle]
  /\ UNCHANGED <<active, waiters, failures, circuit, streak>>

\* mutant of Acquire: the last to come is the first to be served
AcquireLastFirst(c) ==
  LET s == SlotOf(c) IN
  /\ task[c].pc = "next" /\ ~task[c].late /\ task[c].todo # <<>>
  /\ IF active[s] < Limit[s]
     THEN /\ active' = [active EXCEPT ![s] = @ + 1]
          /\ task' = [task EXCEPT ![c].pc = "held"]
          /\ UNCHANGED waiters
     ELSE /\ waiters' = [waiters EXCEPT ![s] = <<c>> \o @]
          /\ task' = [task EXCEPT ![c].pc = "wait"]
          /\ UNCHANGED active
  /\ UNCHANGED <<failures, circuit, streak>>

\* semaphore.acquire
Acquire(c) ==
  LET s == SlotOf(c) IN
  /\ task[c].pc = "next" /\ ~task[c].late /\ task[c].todo # <<>>
  /\ IF active[s] < Limit[s]
     THEN /\ active' = [active EXCEPT ![s] = @ + 1]
          /\ task' = [task EXCEPT ![c].pc = "held"]
          /\ UNCHANGED waiters
     ELSE /\ waiters' = [waiters EXCEPT ![s] = Append(@, c)]
          /\ task' = [task EXCEPT ![c].pc = "wait"]
          /\ UNCHANGED active
  /\ UNCHANGED <<failures, circuit, streak>>

\* mutant of WaitTimesOut: the timer rejects and leaves the waiter queued
WaitTimesOutQueued(c) ==
  /\ task[c].pc = "wait"
  /\ task' = [task EXCEPT ![c] = IF task[c].late THEN Idle ELSE NextEntry(c)]
  /\ UNCHANGED <<active, waiters, failures, circuit, streak>>

\* the slot timer: the waiter leaves the queue, the call tries the next entry
WaitTimesOut(c) ==
  LET s == SlotOf(c) IN
  /\ task[c].pc = "wait"
  /\ \E i \in DOMAIN waiters[s] :
       /\ waiters[s][i] = c
       /\ waiters' = [waiters EXCEPT ![s] = RemoveAt(@, i)]
  /\ task' = [task EXCEPT ![c] = IF task[c].late THEN Idle ELSE NextEntry(c)]
  /\ UNCHANGED <<active, failures, circuit, streak>>

\* with a slot: the deadline and the circuit are looked at once more
CallProvider(c) ==
  LET n == NameOf[Entry(c)] IN
  /\ task[c].pc = "held"
  /\ IF task[c].late \/ circuit[n] = "open"
     THEN task' = [task EXCEPT ![c] = [@ EXCEPT !.pc = "leave", !.ok = FALSE]]
     ELSE task' = [task EXCEPT ![c].pc = "request"]
  /\ IF task[c].late THEN UNCHANGED circuit ELSE Probe(n)
  /\ UNCHANGED <<active, waiters, failures, streak>>

\* mutant of Answer: a success closes the circuit and forgets no failure
AnswerRemembering(c) ==
  LET n == NameOf[Entry(c)] IN
  /\ task[c].pc = "request"
  /\ circuit' = [circuit EXCEPT ![n] = "closed"]
  /\ streak' = [streak EXCEPT ![n] = 0]
  /\ task' = [task EXCEPT ![c] = [@ EXCEPT !.pc = "leave", !.ok = TRUE]]
  /\ UNCHANGED <<active, waiters, failures>>

(***************************************************************************)
(* The provider answers: recordSuccess closes the circuit. The HTTP        *)
(* classes parse the JSON after that, so an unusable answer counts as a    *)
(* success for the breaker and as a failure for the chain.                 *)
(***************************************************************************)
Answer(c) ==
  LET n == NameOf[Entry(c)] IN
  /\ task[c].pc = "request"
  /\ failures' = [failures EXCEPT ![n] = 0]
  /\ circuit' = [circuit EXCEPT ![n] = "closed"]
  /\ streak' = [streak EXCEPT ![n] = 0]
  /\ \E ok \in BOOLEAN :
       /\ Kind[Entry(c)] = "cli" => ok
       /\ task' = [task EXCEPT ![c] = [@ EXCEPT !.pc = "leave", !.ok = ok]]
  /\ UNCHANGED <<active, waiters>>

(***************************************************************************)
(* The request fails or is aborted by its timeout: recordFailure. The      *)
(* direct classes record an error response twice, once where it is seen    *)
(* and again in the catch around it. Failures that have left the window    *)
(* are dropped first.                                                      *)
(***************************************************************************)
Refuse(c) ==
  LET n == NameOf[Entry(c)] IN
  /\ task[c].pc = "request"
  /\ \E kept \in 0..failures[n], records \in 1..(IF Kind[Entry(c)] = "direct" THEN 2 ELSE 1) :
       /\ failures' = [failures EXCEPT ![n] = Least(Threshold, kept + records)]
       /\ circuit' = [circuit EXCEPT ![n] = IF kept + records >= Threshold THEN "open" ELSE @]
  /\ streak' = [streak EXCEPT ![n] = Least(Threshold, @ + 1)]
  /\ task' = [task EXCEPT ![c] = [@ EXCEPT !.pc = "leave", !.ok = FALSE]]
  /\ UNCHANGED <<active, waiters>>

\* the call is done with the provider: it returns, or tries the next entry
Onward(c) == IF task[c].ok THEN Idle ELSE NextEntry(c)

\* mutant of Release: the slot is given back and nobody is woken
ReleaseSilently(c) ==
  /\ task[c].pc = "leave"
  /\ active' = [active EXCEPT ![SlotOf(c)] = @ - 1]
  /\ task' = [task EXCEPT ![c] = Onward(c)]
  /\ UNCHANGED <<waiters, failures, circuit, streak>>

\* semaphore.release: the slot is handed to the first waiter, or given back
Release(c) ==
  LET s == SlotOf(c) IN
  /\ task[c].pc = "leave"
  /\ IF waiters[s] = <<>>
     THEN /\ active' = [active EXCEPT ![s] = @ - 1]
          /\ task' = [task EXCEPT ![c] = Onward(c)]
          /\ UNCHANGED waiters
     ELSE /\ waiters' = [waiters EXCEPT ![s] = Tail(@)]
          /\ task' = [task EXCEPT ![c] = Onward(c), ![Head(waiters[s])].pc = "held"]
          /\ UNCHANGED active
  /\ UNCHANGED <<failures, circuit, streak>>

\* OPEN_DURATION_MS after the circuit was (last) opened
Lapse(n) ==
  /\ circuit[n] = "open"
  /\ circuit' = [circuit EXCEPT ![n] = "lapsed"]
  /\ UNCHANGED <<active, waiters, task, failures, streak>>

Proceed(c) ==
  \/ Check(c) \/ Built(c) \/ Exhausted(c) \/ Acquire(c)
  \/ CallProvider(c) \/ Answer(c) \/ Refuse(c) \/ Release(c)

Next == \/ \E c \in Call : Start(c) \/ Expire(c) \/ WaitTimesOut(c) \/ Proceed(c)
        \/ \E n \in Name : Lapse(n)

(***************************************************************************)
(* Every await of a running call settles: availability checks and requests *)
(* have timeouts. Slot timers need not fire.                               *)
(***************************************************************************)
Fairness == \A c \in Call : WF_vars(Proceed(c))

Spec == Init /\ [][Next]_vars
FairSpec == Spec /\ Fairness

----------------------------------------------------------------------------
(* Properties                                                              *)

Holders(s) == {c \in Call : Holds(c) /\ SlotOf(c) = s}
Waiting(s) == {c \in Call : task[c].pc = "wait" /\ SlotOf(c) = s}

(***************************************************************************)
(* The counter and the queue of a semaphore agree with what the calls are  *)
(* doing, through hand-overs, timeouts and failures: _active is the number *)
(* of calls that hold a slot, never above the limit; a call is queued      *)
(* exactly where it waits and only once; and nobody waits while a slot is  *)
(* free (no wake-up is lost).                                              *)
(***************************************************************************)
SlotAccount(s) ==
  /\ active[s] = Cardinality(Holders(s))
  /\ active[s] <= Limit[s]
  /\ ToSet(waiters[s]) = Waiting(s)
  /\ \A i, j \in DOMAIN waiters[s] : waiters[s][i] = waiters[s][j] => i = j
  /\ waiters[s] # <<>> => active[s] = Limit[s]

SlotsAccounted == \A s \in SemKey : SlotAccount(s)

(***************************************************************************)
(* llmJson uses every semaphore as a slot pool: slots are taken and given  *)
(* back by calls that hold them, and waiters enter in order of arrival.    *)
(***************************************************************************)
Pool == INSTANCE SlotPool WITH
          Client <- Call, Slot <- SemKey, inside <- [s \in SemKey |-> Holders(s)],
          line <- waiters

ImplementsSlotPool == Pool!PoolSpec

(***************************************************************************)
(* A queued call is served in the end even if its timer never fires: a     *)
(* slot's holder gives it back whatever became of its request.             *)
(***************************************************************************)
WaiterServed(c) == task[c].pc = "wait" ~> task[c].pc # "wait"

(***************************************************************************)
(* A circuit is only open while failed requests that no success has        *)
(* interrupted account for it, each one for at most two recorded failures. *)
(***************************************************************************)
OpenNeedsFailures ==
  \A n \in Name : circuit[n] = "open" => 2 * streak[n] >= Threshold
=============================================================================
