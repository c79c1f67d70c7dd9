------------------------------ MODULE Parallel ------------------------------
(***************************************************************************)
(* ParallelComputer: a number of tasks run by several threads that take    *)
(* the index of their next task from one atomic counter.  CMPSecretShare   *)
(* verifies, distributes and reconstructs the shares of a vote with it.    *)
(*                                                                         *)
(* Transform and Execute run every task; a thread whose task throws stops  *)
(* and reports false.  ExecuteUntil also stops all threads when a task     *)
(* returns false, through a flag that is neither atomic nor guarded: a     *)
(* thread may read an old value of it.                                     *)
(***************************************************************************)
EXTENDS Integers

CONSTANTS Total,     \* nTotal
          Hardware,  \* std::thread::hardware_concurrency()
          NumIn,     \* the argument of the constructor
          Until      \* ExecuteUntil, or Transform and Execute

ASSUME ParallelAssumption ==
    Total \in Nat /\ Hardware \in Nat /\ NumIn \in Nat /\ Until \in BOOLEAN

Byte == 256

(* The constructor: the number is a uint8_t, and 0 asks for the default.   *)
nParallelNum == IF NumIn % Byte = 0 THEN Hardware % Byte ELSE NumIn % Byte

nThreads == IF Total < nParallelNum THEN Total ELSE nParallelNum

Tasks == 0..(Total - 1)
Threads == 1..nThreads
Outcomes == IF Until THEN {"true", "false", "throw"} ELSE {"true", "throw"}

VARIABLES outcome,    \* what each task will do
          nCurrent,
          fContinue,
          at,         \* per thread, its state: "next", "check", "task", "true", "false"
          index,      \* per thread, nIndex
          runs,       \* history: how often a task was run
          ret         \* what the call returns, "none" before

vars == <<outcome, nCurrent, fContinue, at, index, runs, ret>>

Init ==
    /\ outcome \in [Tasks -> Outcomes]
    /\ nCurrent = 0 /\ fContinue = TRUE
    /\ at = [t \in Threads |-> "next"]
    /\ index = [t \in Threads |-> 0]
    /\ runs = [i \in Tasks |-> 0]
    /\ ret = "none"

Take_NotAtomic(t) ==
    /\ at[t] = "next"
    /\ index' = [index EXCEPT ![t] = nCurrent]
    /\ at' = [at EXCEPT ![t] = IF nCurrent < Total THEN "check" ELSE "true"]
    /\ nCurrent' \in {nCurrent, nCurrent + 1}
    /\ UNCHANGED <<outcome, fContinue, runs, ret>>

(* nCurrent.fetch_add(1).                                                  *)
Take(t) ==
    /\ at[t] = "next"
    /\ index' = [index EXCEPT ![t] = nCurrent]
    /\ nCurrent' = nCurrent + 1
    /\ at' = [at EXCEPT ![t] = IF nCurrent < Total THEN "check" ELSE "true"]
    /\ UNCHANGED <<outcome, fContinue, runs, ret>>

(* The test of fContinue; a stale read still finds it true.                *)
Check(t) ==
    /\ at[t] = "check"
    /\ \/ at' = [at EXCEPT ![t] = "task"]
       \/ ~fContinue /\ at' = [at EXCEPT ![t] = "true"]
    /\ UNCHANGED <<outcome, nCurrent, fContinue, index, runs, ret>>

(* The task runs: it returns true, returns false or throws.  Without       *)
(* ExecuteUntil what it returns is stored or ignored.                      *)
Run(t) ==
    /\ at[t] = "task"
    /\ at' = [at EXCEPT ![t] = IF outcome[index[t]] = "true" THEN "next" ELSE "false"]
    /\ fContinue' = (fContinue /\ outcome[index[t]] # "false")
    /\ runs' = [runs EXCEPT ![index[t]] = @ + 1]
    /\ UNCHANGED <<outcome, nCurrent, index, ret>>

(* All futures are awaited and their values joined by "and".               *)
Return ==
    /\ ret = "none"
    /\ \A t \in Threads : at[t] \in {"true", "false"}
    /\ ret' = IF \A t \in Threads : at[t] = "true" THEN "true" ELSE "false"
    /\ UNCHANGED <<outcome, nCurrent, fContinue, at, index, runs>>

Next == Return \/ \E t \in Threads : Take(t) \/ Check(t) \/ Run(t)

Spec == Init /\ [][Next]_vars

----------------------------------------------------------------------------
(* No task is run by two threads: their results would overwrite each other *)
(* and a share would be counted twice.                                     *)
EachOnce == \A i \in Tasks : runs[i] <= 1

(* "All transformation success return true, or false" and "If one task     *)
(* return false, all tasks stop and return false, or true": the call       *)
(* returns true exactly when every task was run and succeeded.             *)
Verdict ==
    ret # "none" =>
        (ret = "true") = (\A i \in Tasks : runs[i] = 1 /\ outcome[i] = "true")

(* The call is right about its tasks, none of which runs twice, whichever  *)
(* thread took which task and whatever the threads read of the flag.       *)
TasksJudged == EachOnce /\ Verdict
=============================================================================
