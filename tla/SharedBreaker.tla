--------------------------- MODULE SharedBreaker ---------------------------
(***************************************************************************)
(* The circuit breaker of one provider when Redis keeps it                 *)
(* (circuit-breaker.js, redisIsOpen, redisRecordFailure,                   *)
(* redisRecordSuccess): a list of failure times and the time the circuit   *)
(* opened, which several processes read and write one command at a time.   *)
(* Another command can come between any two of theirs, and each of them    *)
(* may fail, upon which the operation is given up without a word. The      *)
(* expiry of both keys is longer than any time that matters, and left out. *)
(***************************************************************************)
EXTENDS Integers, Sequences, FiniteSets

CONSTANTS
  Process,    \* requests that run at once, in any process
  Threshold,  \* LLM_CB_FAILURE_THRESHOLD
  OpenFor,    \* LLM_CB_OPEN_DURATION_MS
  Window,     \* LLM_CB_FAILURE_WINDOW_MS
  MaxNow,     \* bound on the time
  MaxFailures \* bound on the failures recorded

ASSUME BreakerAssumption ==
  /\ Threshold \in Nat \ {0} /\ OpenFor \in Nat /\ Window \in Nat
  /\ MaxNow \in Nat /\ MaxFailures \in Nat

VARIABLES
  now,
  failedAt,  \* llm:cb:<name>:failures
  openedAt,  \* llm:cb:<name>:openedAt, or NotOpen
  asking,    \* where each request is, and the time it goes by
  overtaken  \* history: requests that hold an openedAt which is written again

sbVars == <<now, failedAt, openedAt, asking, overtaken>>

NotOpen == -1
Instant == 0..MaxNow
AskPhase == {"idle", "asks", "expired", "fails", "counts", "opens", "succeeds", "forgets"}
AskState == [at : AskPhase, time : Instant]
AtRest == [at |-> "idle", time |-> 0]

SharedBreakerTypeOK ==
  /\ now \in Instant
  /\ failedAt \in Seq(Instant) /\ Len(failedAt) <= MaxFailures
  /\ openedAt \in Instant \cup {NotOpen}
  /\ asking \in [Process -> AskState]
  /\ overtaken \subseteq Process

Fresh == openedAt # NotOpen /\ now - openedAt < OpenFor

AskTo(p, at) ==
  asking' = [asking EXCEPT ![p] = IF at = "idle" THEN AtRest ELSE [@ EXCEPT !.at = at]]
----------------------------------------------------------------------------
SharedBreakerInit ==
  /\ now = 0 /\ failedAt = <<>> /\ openedAt = NotOpen /\ overtaken = {}
  /\ asking = [p \in Process |-> AtRest]

TimePasses ==
  /\ now < MaxNow
  /\ now' = now + 1
  /\ UNCHANGED <<failedAt, openedAt, asking, overtaken>>

\* isOpen, recordFailure and recordSuccess begin; a failure takes its time first
BeginAsk(p) ==
  /\ asking[p].at = "idle"
  /\ \E at \in {"asks", "fails", "succeeds"} :
       asking' = [asking EXCEPT ![p] = [at |-> at, time |-> now]]
  /\ UNCHANGED <<now, failedAt, openedAt, overtaken>>

\* mutant of RunOut: the window of the failures is taken for the time to stay open
RunOutWindow(t) == now - t >= Window

RunOut(t) == now - t >= OpenFor

\* GET openedAt: open, closed, or open for long enough to let a request try
ReadOpened(p) ==
  /\ asking[p].at = "asks"
  /\ AskTo(p, IF openedAt # NotOpen /\ RunOut(openedAt) THEN "expired" ELSE "idle")
  /\ UNCHANGED <<now, failedAt, openedAt, overtaken>>

\* DEL openedAt
HalfOpen(p) ==
  /\ asking[p].at = "expired"
  /\ openedAt' = NotOpen
  /\ overtaken' = overtaken \ {p}
  /\ AskTo(p, "idle")
  /\ UNCHANGED <<now, failedAt>>

\* RPUSH, and EXPIRE, which may fail after it
PushFailure(p) ==
  /\ asking[p].at = "fails" /\ Len(failedAt) < MaxFailures
  /\ failedAt' = Append(failedAt, asking[p].time)
  /\ \E at \in {"counts", "idle"} : AskTo(p, at)
  /\ UNCHANGED <<now, openedAt, overtaken>>

Recent(t) == {i \in DOMAIN failedAt : failedAt[i] >= t - Window}

\* LRANGE, counted from the time the failure was recorded
CountFailures(p) ==
  /\ asking[p].at = "counts"
  /\ AskTo(p, IF Cardinality(Recent(asking[p].time)) >= Threshold THEN "opens" ELSE "idle")
  /\ UNCHANGED <<now, failedAt, openedAt, overtaken>>

\* SETEX openedAt, over any other time that is there
OpenCircuit(p) ==
  /\ asking[p].at = "opens"
  /\ openedAt' = asking[p].time
  /\ overtaken' = {q \in Process : asking[q].at = "expired"}
  /\ AskTo(p, "idle")
  /\ UNCHANGED <<now, failedAt>>

\* DEL openedAt, then DEL failures
CloseCircuit(p) ==
  /\ asking[p].at = "succeeds"
  /\ openedAt' = NotOpen
  /\ AskTo(p, "forgets")
  /\ UNCHANGED <<now, failedAt, overtaken>>

ForgetFailures(p) ==
  /\ asking[p].at = "forgets"
  /\ failedAt' = <<>>
  /\ AskTo(p, "idle")
  /\ UNCHANGED <<now, openedAt, overtaken>>

\* a command fails, or the process stops
CommandFails(p) ==
  /\ asking[p].at # "idle"
  /\ overtaken' = overtaken \ {p}
  /\ AskTo(p, "idle")
  /\ UNCHANGED <<now, failedAt, openedAt>>

SharedBreakerNext ==
  \/ TimePasses
  \/ \E p \in Process :
       \/ BeginAsk(p) \/ ReadOpened(p) \/ HalfOpen(p) \/ PushFailure(p) \/ CountFailures(p)
       \/ OpenCircuit(p) \/ CloseCircuit(p) \/ ForgetFailures(p) \/ CommandFails(p)

SharedBreakerSpec == SharedBreakerInit /\ [][SharedBreakerNext]_sbVars

----------------------------------------------------------------------------
(***************************************************************************)
(* A circuit that has not been open for its time is closed by a success,   *)
(* or by a request that found it due for a try and whose DEL was overtaken *)
(* by failures that opened it again, and by nothing else                   *)
(* (circuit-breaker.js:62).                                                *)
(***************************************************************************)
TripHolds ==
  [][Fresh /\ openedAt' = NotOpen =>
       \E p \in Process : \/ asking[p].at = "succeeds" /\ asking'[p].at = "forgets"
                          \/ p \in overtaken /\ asking'[p].at = "idle"]_sbVars
=============================================================================
