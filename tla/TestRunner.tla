------------------------------ MODULE TestRunner ------------------------------
(***************************************************************************)
(* The test runner of TeamLastPicked_p4 (testrunner.c; p5 has a copy) with *)
(* the tests of lab4_tests.c.  The runner forks a process for each test    *)
(* and kills it on SIGALRM.  The test forks the program under test, waits  *)
(* for it and judges its output, which it finds in the file smp4.out.  A   *)
(* kill hits the test process only: the program goes on writing the file.  *)
(***************************************************************************)
EXTENDS Integers, FiniteSets

CONSTANTS NTESTS,       \* tests to run
          ErrorLimits   \* values of max_errors_before_quit; below 1: no limit

ASSUME TestRunnerAssumption == NTESTS \in Nat /\ ErrorLimits \subseteq Int

Tests == 1..NTESTS

VARIABLES max_errors,   \* max_errors_before_quit
          pc,           \* where the runner is
          cur,          \* the test it is at (a test is its own pid)
          stats,
          child_pid,
          sent,         \* sent_child_timeout_kill_signal
          armed,        \* the alarm is set
          passed,       \* local of invoke_test_with_timelimit
          test,         \* the test processes
          program,      \* the programs under test
          out,          \* what smp4.out holds of each program's output
          exists,       \* smp4.out is there
          verdict, judged, alone \* history: the verdicts, what each test saw in
                                 \* smp4.out, and whether its fork had failed

runnerVars == <<pc, cur, stats, child_pid, sent, armed, passed>>
fileVars == <<program, out, exists>>
history == <<verdict, judged, alone>>
vars == <<max_errors, runnerVars, test, fileVars, history>>

Nothing == [t \in Tests |-> "none"]

Init ==
  /\ max_errors \in ErrorLimits
  /\ pc = "next" /\ cur = 1 /\ stats = [ran |-> 0, passed |-> 0, failed |-> 0]
  /\ child_pid = 0 /\ sent = FALSE /\ armed = FALSE /\ passed = FALSE
  /\ test = [t \in Tests |-> "none"] /\ program = [t \in Tests |-> "none"]
  /\ out = Nothing /\ exists = FALSE
  /\ verdict = [t \in Tests |-> "none"] /\ judged = [t \in Tests |-> Nothing]
  /\ alone = [t \in Tests |-> FALSE]

Running == {"run", "wait", "judge"}
Over == {"exit0", "exit1", "killed"}       \* zombies

-----------------------------------------------------------------------------
(* The runner.                                                             *)

More == cur \in Tests /\ (max_errors < 1 \/ stats.failed # max_errors)

RunOneTest ==
  /\ pc = "next" /\ More
  /\ pc' = "fork"
  /\ stats' = [stats EXCEPT !.ran = @ + 1, !.failed = @ + 1]
  /\ UNCHANGED <<max_errors, cur, child_pid, sent, armed, passed, test, fileVars, history>>

\* assert(!child_pid) aborts the runner when the test before ran inline:
\* child_pid has stayed -1 then.
Fork ==
  /\ pc = "fork"
  /\ IF child_pid # 0
     THEN pc' = "aborted" /\ UNCHANGED <<child_pid, test>>
     ELSE /\ \/ child_pid' = cur /\ pc' = "arm"
             \/ child_pid' = -1 /\ pc' = "inline"
          /\ test' = [test EXCEPT ![cur] = "run"]
  /\ UNCHANGED <<max_errors, cur, stats, sent, armed, passed, fileVars, history>>

\* The test returns, or ends the whole runner with exit(EXIT_FAILURE).
Inline ==
  /\ pc = "inline" /\ test[cur] \in Over
  /\ IF test[cur] = "exit0" THEN pc' = "result" /\ passed' = TRUE
                            ELSE pc' = "exited" /\ UNCHANGED passed
  /\ UNCHANGED <<max_errors, cur, stats, child_pid, sent, armed, test, fileVars, history>>

\* Mutant: the alarm is not set.
ArmForgotten ==
  /\ pc = "arm"
  /\ pc' = "wait" /\ sent' = FALSE
  /\ UNCHANGED <<max_errors, cur, stats, child_pid, armed, passed, test, fileVars, history>>

Arm ==
  /\ pc = "arm"
  /\ pc' = "wait" /\ sent' = FALSE /\ armed' = TRUE
  /\ UNCHANGED <<max_errors, cur, stats, child_pid, passed, test, fileVars, history>>

WaitTest ==
  /\ pc = "wait" /\ test[cur] \in Over
  /\ passed' = (test[cur] = "exit0")
  /\ test' = [test EXCEPT ![cur] = "reaped"]
  /\ pc' = "disarm"
  /\ UNCHANGED <<max_errors, cur, stats, child_pid, sent, armed, fileVars, history>>

\* kill_child_signal_handler.  sa_flags is not initialised: waitpid goes on, or
\* returns -1 if it was waiting.
AlarmFires ==
  /\ armed
  /\ armed' = FALSE /\ sent' = TRUE
  /\ test' = IF test[child_pid] \in Running THEN [test EXCEPT ![child_pid] = "killed"] ELSE test
  /\ \/ UNCHANGED <<pc, passed>>
     \/ pc = "wait" /\ test[cur] \in Running /\ pc' = "disarm" /\ passed' = FALSE
  /\ UNCHANGED <<max_errors, cur, stats, child_pid, fileVars, history>>

Disarm ==
  /\ pc = "disarm"
  /\ pc' = "kill" /\ armed' = FALSE
  /\ UNCHANGED <<max_errors, cur, stats, child_pid, sent, passed, test, fileVars, history>>

KillTest ==
  /\ pc = "kill"
  /\ pc' = "result" /\ child_pid' = 0
  /\ test' = IF test[cur] \in Running THEN [test EXCEPT ![cur] = "killed"] ELSE test
  /\ UNCHANGED <<max_errors, cur, stats, sent, armed, passed, fileVars, history>>

\* An inline test, whose value is returned as it is, has left child_pid -1.
Result == IF sent /\ child_pid # -1 THEN "timeout" ELSE IF passed THEN "pass" ELSE "fail"

Report ==
  /\ pc = "result"
  /\ pc' = "next" /\ cur' = cur + 1
  /\ verdict' = [verdict EXCEPT ![cur] = Result]
  /\ stats' = IF Result = "pass"
              THEN [stats EXCEPT !.failed = @ - 1, !.passed = @ + 1] ELSE stats
  /\ UNCHANGED <<max_errors, child_pid, sent, armed, passed, test, fileVars, judged, alone>>

\* run_smp4_tests removes the file.
Finish ==
  /\ pc = "next" /\ ~More
  /\ pc' = "done" /\ exists' = FALSE /\ out' = Nothing
  /\ UNCHANGED <<max_errors, cur, stats, child_pid, sent, armed, passed, test, program, history>>

Runner == RunOneTest \/ Fork \/ Inline \/ Arm \/ WaitTest \/ Disarm \/ KillTest \/ Report \/ Finish

-----------------------------------------------------------------------------
(* A test: run_test and the check of smp4.out.                             *)

\* Without a process for the program the test goes on to judge what is there.
ForkProgram(t) ==
  /\ test[t] = "run"
  /\ \/ /\ test' = [test EXCEPT ![t] = "wait"]
        /\ program' = [program EXCEPT ![t] = "forked"]
        /\ UNCHANGED alone
     \/ /\ test' = [test EXCEPT ![t] = "judge"]
        /\ alone' = [alone EXCEPT ![t] = TRUE]
        /\ UNCHANGED program
  /\ UNCHANGED <<max_errors, runnerVars, out, exists, verdict, judged>>

\* Mutant: run_test does not wait.
WaitProgramNot(t) ==
  /\ test[t] = "wait"
  /\ test' = [test EXCEPT ![t] = "judge"]
  /\ UNCHANGED <<max_errors, runnerVars, fileVars, history>>

WaitProgram(t) ==
  /\ test[t] = "wait" /\ program[t] = "ended"
  /\ test' = [test EXCEPT ![t] = "judge"]
  /\ UNCHANGED <<max_errors, runnerVars, fileVars, history>>

\* What the oracle says of the file is left open; without a file it crashes.
Judge(t) ==
  /\ test[t] = "judge"
  /\ \E code \in (IF exists THEN {"exit0", "exit1"} ELSE {"exit1"}) :
       test' = [test EXCEPT ![t] = code]
  /\ judged' = [judged EXCEPT ![t] = out]
  /\ UNCHANGED <<max_errors, runnerVars, fileVars, verdict, alone>>

(* A program: freopen empties the file, whoever else writes to it.         *)

StartProgram(t) ==
  /\ program[t] = "forked"
  /\ program' = [program EXCEPT ![t] = "writing"]
  /\ exists' = TRUE
  /\ out' = [u \in Tests |-> IF u = t THEN "part"
                             ELSE IF program[u] = "writing" THEN "torn" ELSE "none"]
  /\ UNCHANGED <<max_errors, runnerVars, test, history>>

\* A file that has been removed keeps nothing.
EndProgram(t) ==
  /\ program[t] = "writing"
  /\ program' = [program EXCEPT ![t] = "ended"]
  /\ out' = IF out[t] = "part" THEN [out EXCEPT ![t] = "whole"] ELSE out
  /\ UNCHANGED <<max_errors, runnerVars, test, exists, history>>

Test(t) == ForkProgram(t) \/ WaitProgram(t) \/ Judge(t)
Program(t) == StartProgram(t) \/ EndProgram(t)

Next == \/ Runner \/ AlarmFires
        \/ \E t \in Tests : Test(t) \/ Program(t)

\* The runner gets the CPU and the alarm comes; nothing makes a test or its
\* program go on.
Spec == Init /\ [][Next]_vars /\ WF_vars(Runner) /\ WF_vars(AlarmFires)

-----------------------------------------------------------------------------
(* Properties.                                                             *)

OwnOutput(t) == [u \in Tests |-> IF u = t THEN "whole" ELSE "none"]

\* A verdict is given when the test's process is over.  "pass" means that the
\* test accepted the complete output of its own program and nothing else,
\* except in two cases: its own fork failed, so that it judged what an earlier
\* test had left, or an earlier test was killed and its program goes on
\* writing (or empties the file only now).
PassMeansPassed ==
  \A t \in Tests :
    /\ verdict[t] # "none" => test[t] \notin Running
    /\ verdict[t] = "pass" =>
         \/ judged[t] = OwnOutput(t)
         \/ alone[t]
         \/ \E u \in 1..(t - 1) : verdict[u] = "timeout"

\* "The child process is terminated if it runs for more than a few seconds":
\* a test that runs in a process of its own gets a verdict, whatever it does
\* and whether or not the alarm interrupts waitpid.
EveryTestEnds == \A t \in Tests : pc = "wait" /\ cur = t ~> verdict[t] # "none"
==============================================================================
