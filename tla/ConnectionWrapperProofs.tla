----------------------- MODULE ConnectionWrapperProofs -----------------------
(***************************************************************************)
(* Proofs about ConnectionWrapper, for every retry budget and every number *)
(* of calls: its types, that no session leaks, that a closure is rerun     *)
(* only over a fresh connection, how often it runs, and that the wrapper   *)
(* implements RetriedCall.                                                 *)
(***************************************************************************)
EXTENDS ConnectionWrapper, TLAPS

(***************************************************************************)
(* The inductive invariant.  Its parts say, in the order of the calls:     *)
(* which sessions are open where, how far a call can have got before it    *)
(* reaches a program point, and what the last run of the closure implies.  *)
(***************************************************************************)
Sessions ==
  /\ pc = "new" => built = 0 /\ connection = 0 /\ open = {}
  /\ pc = "retest" => open = {built} /\ connection # built
  /\ pc = "closed" => open = {}
  /\ pc \notin {"new", "retest", "closed"} => open \subseteq {connection}
  /\ pc = "operate" /\ attempt > 0 => connection \in open /\ connection = built

Course ==
  /\ pc \in {"new", "exit"} => kind = "connect"
  /\ pc \in {"operate", "judge"} => kind # "connect"
  /\ pc = "test" => attempt = 0 /\ sends = 0 /\ answer = "none"
  /\ pc \in {"rebuild", "retest", "operate"} => /\ sends <= attempt
                                                /\ answer = "none" \/ isRetryableError(answer)
  /\ pc = "judge" => sends >= 1 /\ answer # "none"
  /\ kind = "connect" => /\ sends = 0 /\ attempt = 0
                         /\ answer = "none" /\ result = "none"

Accounts ==
  /\ sends <= attempt + 1 /\ effects <= sends
  /\ pc = "judge" /\ answer = "notFound" => effects + 1 <= sends
  /\ pc = "judge" /\ answer = "ok" => effects >= 1
  /\ pc \in {"test", "rebuild", "retest", "operate", "judge"} => result = "none"
  /\ result = "ok" => effects >= 1
  /\ result = "notFound" => sends = 1 /\ effects = 0
  /\ BudgetSpent

IInv == TypeOK /\ Sessions /\ Course /\ Accounts

-----------------------------------------------------------------------------
\* The initial state, before Builder.Run calls NewConnectionWrapper, satisfies
\* the inductive invariant.
LEMMA InitInv == Init => IInv
  BY MaxCallsAssumption, RetriesAssumption
     DEF Init, IInv, TypeOK, Sessions, Course, Accounts, BudgetSpent, Closures, Budget

\* Every step of the wrapper preserves it.
LEMMA NextInv == IInv /\ [Next]_vars => IInv'
<1> SUFFICES ASSUME IInv, [Next]_vars
             PROVE  IInv'
  OBVIOUS
<1> USE MaxCallsAssumption, RetriesAssumption
        DEF network, call, Closures, Answers, Errors, isRetryableError, Budget
<1>1. CASE NewConnectionWrapper
  <2>1. TypeOK'
    <3>1. built = 0 /\ connection = 0 /\ handle = 0 /\ open = {}
      BY <1>1 DEF IInv, TypeOK, Sessions, NewConnectionWrapper
    <3>2. built' \in {0, 1} /\ connection' = built' /\ open' \in {{}, {built'}}
      BY <1>1, <3>1 DEF NewConnectionWrapper
    <3>3. built' \in Nat /\ connection' \in 0 .. built' /\ handle' \in 0 .. built'
      BY <1>1, <3>1, <3>2 DEF NewConnectionWrapper
    <3>4. open' \subseteq 1 .. built'
      BY <1>1, <3>1 DEF NewConnectionWrapper
    <3>5. QED
      BY <1>1, <3>3, <3>4 DEF IInv, TypeOK, NewConnectionWrapper
  <2>2. Sessions'
    BY <1>1 DEF IInv, Sessions, TypeOK, NewConnectionWrapper
  <2>3. Course'
    BY <1>1 DEF IInv, Course, TypeOK, NewConnectionWrapper
  <2>4. Accounts'
    BY <1>1 DEF IInv, Accounts, Course, TypeOK, BudgetSpent, NewConnectionWrapper
  <2>5. QED  BY <2>1, <2>2, <2>3, <2>4 DEF IInv
<1>2. CASE ExecuteWithReconnect
  <2>1. TypeOK'
    BY <1>2 DEF IInv, TypeOK, ExecuteWithReconnect
  <2>2. Sessions'
    BY <1>2 DEF IInv, Sessions, TypeOK, ExecuteWithReconnect
  <2>3. Course'
    BY <1>2 DEF IInv, Course, TypeOK, ExecuteWithReconnect
  <2>4. Accounts'
    BY <1>2 DEF IInv, Accounts, Course, TypeOK, BudgetSpent, ExecuteWithReconnect
  <2>5. QED  BY <2>1, <2>2, <2>3, <2>4 DEF IInv
<1>3. CASE GetConnection
  <2>1. TypeOK'
    BY <1>3 DEF IInv, TypeOK, GetConnection, GotConnection, Returns
  <2>2. Sessions'
    BY <1>3 DEF IInv, Sessions, Course, TypeOK, GetConnection, GotConnection, Returns
  <2>3. Course'
    BY <1>3 DEF IInv, Course, TypeOK, GetConnection, GotConnection, Returns
  <2>4. Accounts'
    BY <1>3 DEF IInv, Accounts, Course, TypeOK, BudgetSpent, GetConnection, GotConnection, Returns
  <2>5. QED  BY <2>1, <2>2, <2>3, <2>4 DEF IInv
<1>4. CASE Rebuild
  <2>a. ASSUME built' = built + 1, pc' = "retest"
        PROVE  TypeOK' /\ Sessions'
    <3>1. open' = {built'} /\ connection' = connection /\ UNCHANGED <<attempt, result>>
      BY <1>4, <2>a DEF IInv, TypeOK, Sessions, Rebuild, ReconnectFailed, Returns
    <3>2. TypeOK'
      BY <1>4, <2>a, <3>1 DEF IInv, TypeOK, Rebuild
    <3>3. Sessions'
      BY <1>4, <2>a, <3>1 DEF IInv, TypeOK, Sessions
    <3>4. QED  BY <3>2, <3>3
  <2>b. ASSUME built' = built, open' = open \ {connection}, ReconnectFailed
        PROVE  TypeOK' /\ Sessions'
    <3>0. open \subseteq {connection}
      BY <1>4 DEF IInv, Sessions, Rebuild
    <3>1. open' = {} /\ connection' = connection
      BY <1>4, <2>b, <3>0 DEF Rebuild
    <3>2. attempt' \in 0 .. Budget
      BY <2>b DEF IInv, TypeOK, ReconnectFailed
    <3>3. TypeOK'
      BY <1>4, <2>b, <3>1, <3>2 DEF IInv, TypeOK, Rebuild, ReconnectFailed, Returns
    <3>4. Sessions'
      BY <1>4, <2>b, <3>1 DEF IInv, Sessions, Rebuild, ReconnectFailed, Returns
    <3>5. QED  BY <3>3, <3>4
  <2>c. TypeOK' /\ Sessions'
    BY <1>4, <2>a, <2>b DEF Rebuild
  <2>1. TypeOK'  BY <2>c
  <2>2. Sessions'  BY <2>c
  <2>3. Course'
    BY <1>4 DEF IInv, Course, TypeOK, Rebuild, ReconnectFailed, Returns
  <2>4. Accounts'
    BY <1>4 DEF IInv, Accounts, Course, TypeOK, BudgetSpent, Rebuild, ReconnectFailed, Returns
  <2>5. QED  BY <2>1, <2>2, <2>3, <2>4 DEF IInv
<1>5. CASE Retest
  <2>1. TypeOK'
    <3>1. connection' \in {connection, built} /\ open' \subseteq open /\ built' = built
      BY <1>5 DEF Retest
    <3>2. attempt' \in 0 .. Budget
      BY <1>5 DEF IInv, TypeOK, Retest, ReconnectFailed
    <3>3. QED
      BY <1>5, <3>1, <3>2 DEF IInv, TypeOK, Retest, GotConnection, ReconnectFailed, Returns
  <2>2. Sessions'
    BY <1>5 DEF IInv, Sessions, TypeOK, Retest, GotConnection, ReconnectFailed, Returns
  <2>3. Course'
    BY <1>5 DEF IInv, Course, TypeOK, Retest, GotConnection, ReconnectFailed, Returns
  <2>4. Accounts'
    BY <1>5 DEF IInv, Accounts, Course, TypeOK, BudgetSpent, Retest, GotConnection, ReconnectFailed, Returns
  <2>5. QED  BY <2>1, <2>2, <2>3, <2>4 DEF IInv
<1>6. CASE Operate
  <2>1. TypeOK'
    BY <1>6 DEF IInv, TypeOK, Operate, Ambiguous
  <2>2. Sessions'
    BY <1>6 DEF IInv, Sessions, TypeOK, Operate, Ambiguous
  <2>3. Course'
    BY <1>6 DEF IInv, Course, TypeOK, Operate, Ambiguous
  <2>4. Accounts'
    <3>1. sends <= attempt /\ effects <= sends /\ effects \in Nat /\ sends \in Nat
          /\ attempt \in Int
      BY <1>6 DEF IInv, Accounts, Course, TypeOK, Operate
    <3>2. effects' \in {effects, effects + 1}
          /\ (answer' = "ok" => effects' = effects + 1)
          /\ (answer' = "notFound" => effects' = effects)
      BY <1>6 DEF Operate, Ambiguous
    <3>3. pc = "operate" /\ pc' = "judge" /\ sends' = sends + 1
          /\ attempt' = attempt /\ result' = result
      BY <1>6 DEF Operate
    <3>4. result = "none"
      BY <3>3 DEF IInv, Accounts
    <3>5. /\ sends' <= attempt' + 1
          /\ effects' <= sends'
          /\ answer' = "ok" => effects' >= 1
          /\ answer' = "notFound" => effects' + 1 <= sends'
      <4>1. CASE effects' = effects
        BY <4>1, <3>1, <3>2, <3>3
      <4>2. CASE effects' = effects + 1
        BY <4>2, <3>1, <3>2, <3>3
      <4>3. QED  BY <4>1, <4>2, <3>2
    <3>6. pc' = "judge" /\ result' = "none"
      BY <3>3, <3>4
    <3>7. QED
      BY <3>5, <3>6 DEF Accounts, BudgetSpent
  <2>5. QED  BY <2>1, <2>2, <2>3, <2>4 DEF IInv
<1>7. CASE Succeed
  <2>1. TypeOK'
    BY <1>7 DEF IInv, TypeOK, Succeed, Returns
  <2>2. Sessions'
    BY <1>7 DEF IInv, Sessions, TypeOK, Succeed, Returns
  <2>3. Course'
    BY <1>7 DEF IInv, Course, TypeOK, Succeed, Returns
  <2>4. Accounts'
    BY <1>7 DEF IInv, Accounts, Course, TypeOK, BudgetSpent, Succeed, Returns
  <2>5. QED  BY <2>1, <2>2, <2>3, <2>4 DEF IInv
<1>8. CASE Refused
  <2>1. TypeOK'
    BY <1>8 DEF IInv, TypeOK, Refused, Returns
  <2>2. Sessions'
    BY <1>8 DEF IInv, Sessions, TypeOK, Refused, Returns
  <2>3. Course'
    BY <1>8 DEF IInv, Course, TypeOK, Refused, Returns
  <2>4. Accounts'
    BY <1>8 DEF IInv, Accounts, Course, TypeOK, BudgetSpent, Refused, Returns
  <2>5. QED  BY <2>1, <2>2, <2>3, <2>4 DEF IInv
<1>9. CASE Retry
  <2>1. TypeOK'
    BY <1>9 DEF IInv, TypeOK, Retry
  <2>2. Sessions'
    BY <1>9 DEF IInv, Sessions, TypeOK, Retry
  <2>3. Course'
    BY <1>9 DEF IInv, Accounts, Course, TypeOK, Retry
  <2>4. Accounts'
    BY <1>9 DEF IInv, Accounts, Course, TypeOK, BudgetSpent, Retry
  <2>5. QED  BY <2>1, <2>2, <2>3, <2>4 DEF IInv
<1>10. CASE GiveUp
  <2>1. TypeOK'
    BY <1>10 DEF IInv, TypeOK, GiveUp, Returns
  <2>2. Sessions'
    BY <1>10 DEF IInv, Sessions, TypeOK, GiveUp, Returns
  <2>3. Course'
    BY <1>10 DEF IInv, Course, TypeOK, GiveUp, Returns
  <2>4. Accounts'
    BY <1>10 DEF IInv, Accounts, Course, TypeOK, BudgetSpent, GiveUp, Returns
  <2>5. QED  BY <2>1, <2>2, <2>3, <2>4 DEF IInv
<1>11. CASE Close
  <2>1. TypeOK'
    BY <1>11 DEF IInv, TypeOK, Close
  <2>2. Sessions'
    BY <1>11 DEF IInv, Sessions, TypeOK, Close
  <2>3. Course'
    BY <1>11 DEF IInv, Course, TypeOK, Close
  <2>4. Accounts'
    BY <1>11 DEF IInv, Accounts, Course, TypeOK, BudgetSpent, Close
  <2>5. QED  BY <2>1, <2>2, <2>3, <2>4 DEF IInv
<1>12. CASE UNCHANGED vars
  BY <1>12 DEF IInv, TypeOK, Sessions, Course, Accounts, BudgetSpent, vars
<1>13. QED
  BY <1>1, <1>2, <1>3, <1>4, <1>5, <1>6, <1>7, <1>8, <1>9, <1>10, <1>11, <1>12 DEF Next, Progress, Terminated

\* The invariant holds throughout every behaviour, whatever the retry budget.
THEOREM Invariance == Spec => []IInv
<1>1. QED  BY InitInv, NextInv, PTL DEF Spec

\* The wrapper's state stays well typed: the loop variable within the retry
\* budget, every connection one that was built.
THEOREM TypeCorrect == Spec => []TypeOK
<1>1. IInv => TypeOK  BY DEF IInv
<1>2. QED  BY <1>1, Invariance, PTL

\* At most the shared connection and the one under test are open, and none
\* once Builder.Run has closed the wrapper, however reconnects fail.
THEOREM SessionSafety == Spec => []NoSessionLeaked
<1>1. IInv => NoSessionLeaked
  BY DEF IInv, TypeOK, Sessions, NoSessionLeaked
<1>2. QED  BY <1>1, Invariance, PTL

\* A closure is run again only over the connection just opened and tested.
THEOREM FreshRetry == Spec => []RetryOnOpenConnection
<1>1. IInv => RetryOnOpenConnection
  BY DEF IInv, Sessions, RetryOnOpenConnection
<1>2. QED  BY <1>1, Invariance, PTL

\* A call runs its closure at most once per attempt and once before them, and
\* a NotFound error the step can recognise means exactly one, fruitless, run.
THEOREM BoundedSends == Spec => []SendsBounded
<1>1. IInv => SendsBounded
  BY DEF IInv, Accounts, SendsBounded
<1>2. QED  BY <1>1, Invariance, PTL

\* Once the loop has started, a communication failure is returned only after
\* the last attempt.
THEOREM FullBudget == Spec => []BudgetSpent
<1>1. IInv => BudgetSpent
  BY DEF IInv, Accounts
<1>2. QED  BY <1>1, Invariance, PTL

\* A call is never further from its return than its budget allows.
LEMMA DistanceBounded == IInv => Distance \in 0 .. 5 * (Budget + 1)
<1> SUFFICES ASSUME IInv PROVE Distance \in 0 .. 5 * (Budget + 1)
  OBVIOUS
<1>1. attempt \in 0 .. Budget /\ Budget \in Nat
  BY RetriesAssumption DEF IInv, TypeOK, Budget
<1>2. pc \in DOMAIN Ahead => Ahead[pc] \in 1 .. 5
  BY DEF Ahead
<1> QED
  BY <1>1, <1>2 DEF Distance

\* A step that ends the call, or goes on in the same round further down, or in the
\* next one.
LEMMA Nearer ==
  ASSUME IInv, pc \in DOMAIN Ahead, maxRetries' = maxRetries,
         \/ attempt' = attempt /\ pc' \notin DOMAIN Ahead
         \/ attempt' = attempt /\ pc' \in DOMAIN Ahead /\ Ahead[pc'] < Ahead[pc]
         \/ attempt' = attempt + 1 /\ pc' = "rebuild"
  PROVE  Distance' < Distance
<1>1. attempt \in Int /\ Budget \in Int /\ Budget' = Budget
  BY RetriesAssumption DEF IInv, TypeOK, Budget
<1>2. /\ Ahead' = Ahead /\ "rebuild" \in DOMAIN Ahead /\ Ahead["rebuild"] = 4
      /\ \A p \in DOMAIN Ahead : Ahead[p] \in 1 .. 5
  BY DEF Ahead
<1> QED
  BY <1>1, <1>2 DEF Distance

\* Whatever it meets, a call comes nearer to its return with every step.
THEOREM EveryCallAdvances == Spec => CallAdvances
<1> DEFINE Bounded == Distance \in 0 .. 5 * (Budget + 1)
<1>1. IInv => Bounded
  BY DistanceBounded
<1>2. IInv /\ Bounded /\ Bounded' /\ [Next]_vars
        => [Progress => Distance' \in 0 .. Distance - 1]_vars
  <2> SUFFICES ASSUME IInv, Bounded, Bounded', Progress
               PROVE Distance' \in 0 .. Distance - 1
    OBVIOUS
  <2>1. pc \in DOMAIN Ahead
    BY DEF Ahead, Progress, GetConnection, Rebuild, Retest, Operate, Succeed, Refused,
           Retry, GiveUp
  <2>2. Distance' < Distance
    BY <2>1, Nearer
    DEF call, Progress, GetConnection, GotConnection, Rebuild, Retest, Operate, Succeed, Refused,
        Retry, GiveUp, ReconnectFailed, Returns, Ahead
  <2> QED
    BY <2>2, RetriesAssumption DEF Budget
<1> HIDE DEF Bounded
<1> QED
  BY <1>1, <1>2, Invariance, PTL DEF Spec, CallAdvances

-----------------------------------------------------------------------------
(* The refinement: what a step of the wrapper is to the step that called it. *)

\* While GetConnection serves Builder.Run there is no call to speak of.
LEMMA PromiseInit == Init => Promise!Init
  BY RetriesAssumption DEF Init, Budget, Promise!Init

\* The budget of a call is settled before it begins.
LEMMA BudgetKept == [Next]_vars => Budget' = Budget
  BY DEF Next, vars, call, Budget, NewConnectionWrapper, ExecuteWithReconnect, Progress,
         GetConnection, Rebuild, Retest, Operate, Succeed, Refused, Retry, GiveUp, Close,
         Terminated

\* Every step of the wrapper begins a call, runs its closure, returns from it,
\* or is invisible to the caller.
LEMMA PromiseNext == IInv /\ [Next]_vars => [Promise!Next]_(Promise!vars)
<1> SUFFICES ASSUME IInv, [Next]_vars
             PROVE  Promise!Next \/ UNCHANGED Promise!vars
  OBVIOUS
<1> USE DEF network, call, Closures, Answers, Errors, isRetryableError
<1>0. (Budget + 1)' = Budget + 1
  BY BudgetKept
<1>1. CASE NewConnectionWrapper
  BY <1>0, <1>1 DEF IInv, Course, NewConnectionWrapper, Promise!vars
<1>2. CASE ExecuteWithReconnect
  BY <1>0, <1>2 DEF ExecuteWithReconnect, Promise!Begin, Promise!Next
<1>3. CASE GetConnection
  BY <1>0, <1>3 DEF IInv, Course, GetConnection, GotConnection, Returns,
              Promise!Return, Promise!Next, Promise!vars
<1>4. CASE Rebuild
  BY <1>0, <1>4 DEF IInv, Course, Rebuild, ReconnectFailed, Returns,
              Promise!Return, Promise!Next, Promise!vars
<1>5. CASE Retest
  BY <1>0, <1>5 DEF IInv, Course, Retest, GotConnection, ReconnectFailed, Returns,
              Promise!Return, Promise!Next, Promise!vars
<1>6. CASE Operate
  <2>1. /\ sends < Budget + 1
        /\ kind # "connect" /\ kind' = kind /\ pc' = "judge"
        /\ answer = "none" \/ isRetryableError(answer)
    BY <1>6, RetriesAssumption DEF IInv, TypeOK, Course, Operate, Budget
  <2>2. /\ answer' \in Answers
        /\ effects' \in {effects, effects + 1}
        /\ answer' = "ok" => effects' = effects + 1
        /\ answer' \in {"auth", "notFound", "fault"} => effects' = effects
    BY <1>6 DEF Operate, Ambiguous
  <2>3. QED
    BY <1>0, <1>6, <2>1, <2>2 DEF Operate, Promise!Send, Promise!Next
<1>7. CASE Succeed
  BY <1>0, <1>7 DEF IInv, Course, Succeed, Returns, Promise!Return, Promise!Next
<1>8. CASE Refused
  <2>1. answer \in {"notFound", "fault"} /\ kind # "connect"
    BY <1>8 DEF IInv, TypeOK, Course, Refused
  <2>2. attempt = 0 => sends = 1
    BY <1>8 DEF IInv, TypeOK, Course, Accounts, Refused
  <2>3. QED
    BY <1>0, <1>8, <2>1, <2>2 DEF Refused, Returns, Promise!Return, Promise!Next
<1>9. CASE Retry
  BY <1>0, <1>9 DEF Retry, Promise!vars
<1>10. CASE GiveUp
  BY <1>0, <1>10 DEF IInv, Course, GiveUp, Returns, Promise!Return, Promise!Next
<1>11. CASE Close
  BY <1>0, <1>11 DEF IInv, Course, Close, Promise!vars
<1>12. CASE UNCHANGED vars
  BY <1>0, <1>12 DEF vars, Promise!vars
<1>13. QED
  BY <1>1, <1>2, <1>3, <1>4, <1>5, <1>6, <1>7, <1>8, <1>9, <1>10, <1>11, <1>12 DEF Next, Progress, Terminated

\* The wrapper keeps the promise of RetriedCall for every retry budget.
THEOREM Implementation == Spec => ImplementsPromise
<1>1. QED
  BY Invariance, PromiseInit, PromiseNext, PTL DEF Spec, ImplementsPromise, Promise!Spec
=============================================================================
