-------------------------- MODULE ConnectionWrapper --------------------------
(***************************************************************************)
(* builder/olvm/connection_wrapper.go: the connection every step shares,   *)
(* tested before each call, replaced when the session is lost, and the     *)
(* retry loop around the closure a step hands to ExecuteWithReconnect.     *)
(*                                                                         *)
(* Connections are numbered in the order they are built.  The program is   *)
(* sequential: one call of the wrapper is in progress at a time, and the   *)
(* engine or the network may fail any request of it in any way.            *)
(***************************************************************************)
EXTENDS Integers

CONSTANTS
  Retries,      \* the values Config.MaxRetries may have; NewConfig replaces only 0
  MaxCalls      \* bound: calls of ExecuteWithReconnect in a behaviour

ASSUME RetriesAssumption == Retries \subseteq Int \ {0}
ASSUME MaxCallsAssumption == MaxCalls \in Nat

VARIABLES
  maxRetries,   \* Config.MaxRetries: chosen before the build, never changed
  connection,   \* cw.connection, 0 before NewConnectionWrapper
  open,         \* the connections built and not closed
  built,        \* how many connections were built
  pc,           \* where the wrapper is
  kind,         \* the call in progress, or the last one
  attempt,      \* the loop variable of the retry loop, 0 before the loop
  handle,       \* the connection a service object captured by a step is bound to
  sends,        \* runs of the closure in this call
  effects,      \* runs of it the engine carried out
  answer,       \* what the last run returned
  result,       \* what the call returned
  calls         \* calls begun

vars == <<maxRetries, connection, open, built, pc, kind, attempt, handle, sends,
          effects, answer, result, calls>>

network == <<connection, open, built>>
call == <<maxRetries, kind, handle, sends, effects, answer, calls>>

(***************************************************************************)
(* Errors, as far as isRetryableError and the callers tell them apart:     *)
(* "auth" stands for AuthError, the session messages and HTML answers;     *)
(* "network" for refused, reset and timed out requests; "server" for HTTP  *)
(* 5xx and 429; "notFound" for NotFoundError; "fault" for the rest.        *)
(***************************************************************************)
Errors == {"auth", "network", "server", "notFound", "fault"}
Answers == {"ok"} \cup Errors

isRetryableError(err) == err \in {"auth", "network", "server"}

\* A request that failed this way may have been carried out all the same.
Ambiguous(err) == err \in {"network", "server"}

\* "argument": the closure builds its request on the connection it is given;
\* "capture": it only stores a service object of that connection;
\* "captured": it sends through a service object stored by an earlier call;
\* "connect": not a closure but the GetConnection call of Builder.Run.
Closures == {"argument", "capture", "captured"}

Budget == IF maxRetries > 0 THEN maxRetries ELSE 0

-----------------------------------------------------------------------------
Init ==
  /\ maxRetries \in Retries
  /\ connection = 0 /\ open = {} /\ built = 0
  /\ pc = "new" /\ kind = "connect" /\ attempt = 0 /\ handle = 0
  /\ sends = 0 /\ effects = 0 /\ answer = "none" /\ result = "none"
  /\ calls = 0

\* Builder.Run builds the wrapper and asks it for its connection.
NewConnectionWrapper ==
  /\ pc = "new"
  /\ \/ /\ built' = 1 /\ connection' = 1 /\ open' = {1}
        /\ pc' = "test"
     \/ /\ pc' = "closed"
        /\ UNCHANGED network
  /\ UNCHANGED <<attempt, result, call>>

ExecuteWithReconnect ==
  /\ pc = "idle"
  /\ calls < MaxCalls
  /\ \E k \in Closures :
       /\ k = "captured" => handle # 0
       /\ kind' = k
  /\ calls' = calls + 1
  /\ pc' = "test" /\ attempt' = 0
  /\ sends' = 0 /\ effects' = 0 /\ answer' = "none" /\ result' = "none"
  /\ UNCHANGED <<network, maxRetries, handle>>

\* The connection is usable: run the closure, or give it to Builder.Run.
GotConnection == pc' = IF kind = "connect" THEN "idle" ELSE "operate"

\* A call returns to its step; a failed GetConnection ends Builder.Run.
Returns(r) ==
  IF kind = "connect"
    THEN pc' = "exit" /\ UNCHANGED result
    ELSE pc' = "idle" /\ result' = r

\* GetConnection reconnects once, and only when its test failed retryably.
GetConnection ==
  /\ pc = "test"
  /\ \E tested \in Answers :
       \/ tested = "ok" /\ GotConnection /\ UNCHANGED result
       \/ isRetryableError(tested) /\ pc' = "rebuild" /\ UNCHANGED result
       \/ tested # "ok" /\ ~isRetryableError(tested) /\ Returns("error")
  /\ UNCHANGED <<network, attempt, call>>

\* Mutants: the loop without its last-attempt test; GetConnection testing and
\* reconnecting over and over.
ReconnectsForever ==
  IF attempt = 0
    THEN Returns("comm") /\ UNCHANGED attempt
    ELSE pc' = "rebuild" /\ attempt' = attempt + 1 /\ UNCHANGED result

ReconnectRetests ==
  IF attempt = 0 THEN pc' = "test" /\ UNCHANGED <<attempt, result>>
  ELSE IF attempt = maxRetries THEN Returns("comm") /\ UNCHANGED attempt
  ELSE pc' = "rebuild" /\ attempt' = attempt + 1 /\ UNCHANGED result

\* The caller's side of a failed reconnect: GetConnection passes the error
\* on, the retry loop sleeps and tries again until the last attempt.
ReconnectFailed ==
  IF attempt = 0 \/ attempt = maxRetries
    THEN Returns("comm") /\ UNCHANGED attempt
    ELSE pc' = "rebuild" /\ attempt' = attempt + 1 /\ UNCHANGED result

\* reconnect, first half: close the old connection and build a new one.
Rebuild ==
  /\ pc = "rebuild"
  /\ \/ /\ built' = built + 1
        /\ open' = (open \ {connection}) \cup {built + 1}
        /\ pc' = "retest"
        /\ UNCHANGED <<attempt, result>>
     \/ /\ open' = open \ {connection}
        /\ ReconnectFailed
        /\ UNCHANGED built
  /\ UNCHANGED <<connection, call>>

\* Mutant: the new connection is not closed when its test fails.
RetestKeepsOpen ==
  /\ pc = "retest"
  /\ \/ /\ connection' = built
        /\ GotConnection
        /\ UNCHANGED <<attempt, result>>
     \/ ReconnectFailed /\ UNCHANGED connection
  /\ UNCHANGED <<open, built, call>>

\* reconnect, second half: only a connection that passes its test is kept.
Retest ==
  /\ pc = "retest"
  /\ \/ /\ connection' = built
        /\ GotConnection
        /\ UNCHANGED <<open, attempt, result>>
     \/ /\ open' = open \ {built}
        /\ ReconnectFailed
        /\ UNCHANGED connection
  /\ UNCHANGED <<built, call>>

\* operation(conn)
Operate ==
  /\ pc = "operate"
  /\ pc' = "judge"
  /\ sends' = sends + 1
  /\ answer' \in IF kind = "capture" THEN {"ok"} ELSE Answers
  /\ effects' \in {e \in {effects, effects + 1} :
                     /\ answer' = "ok" => e = effects + 1
                     /\ answer' # "ok" /\ ~Ambiguous(answer') => e = effects}
  /\ handle' = IF kind = "capture" THEN connection ELSE handle
  /\ UNCHANGED <<network, maxRetries, kind, attempt, result, calls>>

Succeed ==
  /\ pc = "judge" /\ answer = "ok"
  /\ Returns("ok")
  /\ UNCHANGED <<network, attempt, call>>

\* Mutant: errors of a retry keep their type.
RefusedUnwrapped ==
  /\ pc = "judge" /\ answer # "ok" /\ ~isRetryableError(answer)
  /\ Returns(IF answer = "notFound" THEN "notFound" ELSE "error")
  /\ UNCHANGED <<network, attempt, call>>

\* Only an error of the first run reaches the step with its type.
Refused ==
  /\ pc = "judge" /\ answer # "ok" /\ ~isRetryableError(answer)
  /\ Returns(IF attempt = 0 /\ answer = "notFound" THEN "notFound" ELSE "error")
  /\ UNCHANGED <<network, attempt, call>>

\* Mutants: a retry without reconnecting, of every error, until the attempt
\* equals the budget.
RetryInPlace ==
  /\ pc = "judge" /\ isRetryableError(answer)
  /\ attempt < maxRetries
  /\ attempt' = attempt + 1
  /\ pc' = "operate"
  /\ UNCHANGED <<network, result, call>>

RetryAny ==
  /\ pc = "judge" /\ answer # "ok"
  /\ attempt < maxRetries
  /\ attempt' = attempt + 1
  /\ pc' = "rebuild"
  /\ UNCHANGED <<network, result, call>>

RetryUntilEqual ==
  /\ pc = "judge" /\ isRetryableError(answer)
  /\ attempt # maxRetries
  /\ attempt' = attempt + 1
  /\ pc' = "rebuild"
  /\ UNCHANGED <<network, result, call>>

Retry ==
  /\ pc = "judge" /\ isRetryableError(answer)
  /\ attempt < maxRetries
  /\ attempt' = attempt + 1
  /\ pc' = "rebuild"
  /\ UNCHANGED <<network, result, call>>

\* Mutant: the loop ends one attempt early.
GiveUpEarly ==
  /\ pc = "judge" /\ isRetryableError(answer)
  /\ attempt >= maxRetries - 1
  /\ Returns(IF attempt = 0 THEN "fallback" ELSE "comm")
  /\ UNCHANGED <<network, attempt, call>>

GiveUp ==
  /\ pc = "judge" /\ isRetryableError(answer)
  /\ attempt >= maxRetries
  /\ Returns(IF attempt = 0 THEN "fallback" ELSE "comm")
  /\ UNCHANGED <<network, attempt, call>>

\* The deferred connWrapper.Close() of Builder.Run.
Close ==
  /\ pc \in {"idle", "exit"}
  /\ pc' = "closed"
  /\ open' = open \ {connection}
  /\ UNCHANGED <<connection, built, attempt, result, call>>

Terminated == pc = "closed" /\ UNCHANGED vars

Progress ==
  \/ GetConnection \/ Rebuild \/ Retest
  \/ Operate \/ Succeed \/ Refused \/ Retry \/ GiveUp

Next ==
  \/ NewConnectionWrapper \/ ExecuteWithReconnect \/ Progress
  \/ Close \/ Terminated

\* Every request is answered or timed out (Timeout(10 s)) and every sleep
\* ends; nothing makes a step issue a call or the build end.
Spec == Init /\ [][Next]_vars /\ WF_vars(Progress)

-----------------------------------------------------------------------------
TypeOK ==
  /\ maxRetries \in Retries
  /\ built \in Nat /\ connection \in 0 .. built /\ handle \in 0 .. built
  /\ open \subseteq 1 .. built
  /\ pc \in {"new", "idle", "test", "rebuild", "retest", "operate", "judge",
             "exit", "closed"}
  /\ kind \in Closures \cup {"connect"}
  /\ attempt \in 0 .. Budget
  /\ sends \in Nat /\ effects \in Nat /\ calls \in 0 .. MaxCalls
  /\ answer \in Answers \cup {"none"}
  /\ result \in {"none", "ok", "notFound", "error", "comm", "fallback"}

\* However many reconnects fail, and wherever they fail, at most the shared
\* connection and the one under test are open, and none when Run returned:
\* no path of reconnect leaves a session behind on the engine.
NoSessionLeaked ==
  /\ open \subseteq {connection} \cup (IF pc = "retest" THEN {built} ELSE {})
  /\ pc = "closed" => open = {}

\* A closure is run again only over a connection that reconnect has just
\* opened and tested, never over the one it closed.
RetryOnOpenConnection ==
  pc = "operate" /\ attempt > 0 => connection \in open /\ connection = built

\* One run before the loop and one per attempt at most; the step sees success only
\* when the engine has carried the closure out, and a NotFound error only when the
\* closure ran exactly once.
SendsBounded ==
  /\ sends <= attempt + 1
  /\ effects <= sends
  /\ result = "ok" => effects >= 1
  /\ result = "notFound" => sends = 1 /\ effects = 0

\* A request lost on the way is given up only when the retry budget is spent,
\* once the loop has started.
BudgetSpent == result = "comm" /\ sends > 0 => attempt = maxRetries

\* How far the call is from its return: the rounds of the loop it has left, and
\* what is left of this one.
Ahead == [test |-> 5, rebuild |-> 4, retest |-> 3, operate |-> 2, judge |-> 1]
Distance == 5 * (Budget - attempt) + IF pc \in DOMAIN Ahead THEN Ahead[pc] ELSE 0

\* No answer sends a call back: 5 steps per attempt bring it to its return, with any
\* retry budget, a negative one included.
CallAdvances == [][Progress => Distance' \in 0 .. Distance - 1]_vars

\* Every call returns: the retry loop ends whatever the engine answers.
CallReturns == pc \in {"test", "rebuild", "retest", "operate", "judge"}
                 ~> pc \in {"idle", "exit"}

\* The promise of RetriedCall, with the connections forgotten.
Promise == INSTANCE RetriedCall WITH
  maxSends <- Budget + 1,
  phase <- IF kind = "connect" \/ pc \in {"idle", "closed"} THEN "idle" ELSE "busy",
  answer <- IF answer \in {"none", "ok"} THEN answer
            ELSE IF isRetryableError(answer) THEN "lost" ELSE "refused",
  outcome <- IF result \in {"none", "ok", "notFound"} THEN result ELSE "failed"

ImplementsPromise == Promise!Spec

-----------------------------------------------------------------------------
(* What the comments and the documentation say, and the code does not do.  *)

\* "executes a function that uses the connection, automatically reconnecting":
\* the request repeated after a reconnect travels on an open connection.
RetriedRequestOnOpenConnection ==
  pc = "operate" /\ attempt > 0 =>
    (IF kind = "captured" THEN handle ELSE connection) \in open

\* "Automatic session reconnection ... with configurable retry limits": a call is
\* given up for the connection's sake only when that limit is reached, also when
\* it is the reconnect of GetConnection, before the loop, that fails.
ReconnectRetried == result = "comm" => attempt = maxRetries
=============================================================================
