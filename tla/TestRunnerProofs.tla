--------------------------- MODULE TestRunnerProofs ---------------------------
(***************************************************************************)
(* PassMeansPassed, for any number of tests.  The invariant follows the    *)
(* test the runner is at: what its process can be doing at each step of    *)
(* the runner (Phase), and what smp4.out holds while no earlier test has   *)
(* been killed (File).                                                     *)
(***************************************************************************)
EXTENDS TestRunner, TLAPS

Marks == {"none", "part", "whole", "torn"}

Types ==
  /\ pc \in {"next", "fork", "arm", "inline", "wait", "disarm", "kill", "result",
             "done", "exited", "aborted"}
  /\ cur \in 1..(NTESTS + 1)
  /\ pc \notin {"next", "done"} => cur \in Tests
  /\ child_pid \in Tests \cup {0, -1}
  /\ sent \in BOOLEAN /\ armed \in BOOLEAN /\ passed \in BOOLEAN
  /\ test \in [Tests -> Running \cup Over \cup {"none", "reaped"}]
  /\ program \in [Tests -> {"none", "forked", "writing", "ended"}]
  /\ out \in [Tests -> Marks]
  /\ verdict \in [Tests -> {"none", "pass", "fail", "timeout"}]
  /\ judged \in [Tests -> [Tests -> Marks]]
  /\ alone \in [Tests -> BOOLEAN]

Killed(t) == test[t] = "killed"

\* What the runner knows at each of its steps of the process of its test.
Phase ==
  /\ \A t \in Tests : test[t] \in Running => t = cur /\ pc \in {"arm", "inline", "wait"}
  /\ pc \in {"next", "fork", "done", "aborted"} /\ cur \in Tests => test[cur] = "none"
  /\ pc \in {"arm", "wait", "disarm", "kill"} => child_pid = cur
  /\ armed => pc \in {"wait", "disarm"}
  /\ pc = "inline" => child_pid = -1
  /\ pc \in {"arm", "inline"} => test[cur] \in Running \cup {"exit0", "exit1"}
  /\ pc = "wait" => test[cur] \in Running \cup Over
  /\ pc \in {"disarm", "kill"} => test[cur] \in {"killed", "reaped"}
  /\ pc \in {"wait", "disarm", "kill"} => (Killed(cur) => sent)
  /\ pc = "result" => \/ child_pid = -1 /\ test[cur] = "exit0"
                      \/ child_pid = 0 /\ test[cur] \in {"killed", "reaped"}
                                       /\ (Killed(cur) => sent)

\* Tests still to come have done nothing, and have no verdict.
Future ==
  /\ \A t \in Tests : t >= cur => verdict[t] = "none"
  /\ \A t \in Tests : t > cur => test[t] = "none"
  /\ \A t \in Tests : test[t] \in {"none", "run"} => program[t] = "none" /\ ~alone[t]

\* No test before t has been killed.
Clean(t) == \A u \in 1..(t - 1) : verdict[u] # "timeout"

Quiet(t) == program[t] \in {"none", "ended"}

Started(t) == [u \in Tests |-> IF u = t THEN "part" ELSE "none"]

\* As long as no test has been killed no program outlives its test, and the
\* file holds the output of the program of the current test alone.
File ==
  /\ \A t \in Tests : alone[t] => program[t] = "none"
  /\ \A t \in Tests : test[t] = "judge" /\ ~alone[t] => program[t] = "ended"
  /\ \A t \in Tests : test[t] \in {"exit0", "exit1"} => Quiet(t)
  /\ cur \in Tests /\ test[cur] = "reaped" /\ ~sent => Quiet(cur)
  /\ Clean(cur) => /\ \A u \in 1..(cur - 1) : Quiet(u)
                   /\ cur \in Tests =>
                        /\ program[cur] = "writing" => out = Started(cur)
                        /\ program[cur] = "ended" => out = OwnOutput(cur)

Good(t) == judged[t] = OwnOutput(t) \/ alone[t] \/ ~Clean(t)

Passes ==
  /\ \A t \in Tests : verdict[t] = "pass" => Good(t)
  /\ \A t \in Tests : test[t] = "exit0" => Good(t)
  /\ pc \in {"disarm", "kill", "result"} /\ passed => Good(cur)

IInv == Types /\ Phase /\ Future /\ File /\ Passes

-----------------------------------------------------------------------------
(* The invariant is kept.                                                 *)

\* The runner starts with nothing run and no verdict.
LEMMA InitIInv == Init => IInv
<1> SUFFICES ASSUME Init PROVE IInv
  OBVIOUS
<1> USE TestRunnerAssumption DEF Init, Tests, Running, Over, Nothing
<1>1. Types
  <2>1. alone \in [Tests -> BOOLEAN]
    OBVIOUS
  <2>2. judged \in [Tests -> [Tests -> Marks]]
    BY DEF Marks
  <2>3. cur \in 1..(NTESTS + 1) /\ out \in [Tests -> Marks]
    BY DEF Marks
  <2>4. /\ test \in [Tests -> Running \cup Over \cup {"none", "reaped"}]
        /\ program \in [Tests -> {"none", "forked", "writing", "ended"}]
        /\ verdict \in [Tests -> {"none", "pass", "fail", "timeout"}]
    OBVIOUS
  <2>5. pc = "next" /\ child_pid = 0 /\ sent = FALSE /\ armed = FALSE /\ passed = FALSE
    OBVIOUS
  <2> HIDE DEF Init
  <2> QED BY <2>1, <2>2, <2>3, <2>4, <2>5 DEF Types
<1>2. Phase
  BY DEF Phase, Killed
<1>3. Future
  BY DEF Future
<1>4. File
  BY DEF File, Quiet, Clean
<1>5. Passes
  BY DEF Passes, Good
<1> QED BY <1>1, <1>2, <1>3, <1>4, <1>5 DEF IInv

\* The next test is chosen.
LEMMA RunOneTestStep == IInv /\ RunOneTest => IInv'
<1> SUFFICES ASSUME IInv, RunOneTest PROVE IInv'
  OBVIOUS
<1> USE TestRunnerAssumption DEF fileVars, runnerVars, history, Tests, Running, Over
<1>1. Types'
  BY DEF IInv, Types, Phase, Marks, RunOneTest, More
<1>2. Phase'
  BY DEF IInv, Types, Phase, Future, Killed, RunOneTest, More
<1>3. Future'
  BY DEF IInv, Types, Phase, Future, RunOneTest, More
<1>4. File'
  BY DEF IInv, Types, Phase, Future, File, Killed, Clean, Quiet, Started, OwnOutput, RunOneTest, More
<1>5. Passes'
  BY DEF IInv, Types, Phase, Future, File, Killed, Clean, Quiet, OwnOutput, Passes, Good, RunOneTest, More
<1> QED BY <1>1, <1>2, <1>3, <1>4, <1>5 DEF IInv

\* fork succeeds, fails, or is not reached.
LEMMA ForkStep == IInv /\ Fork => IInv'
<1> SUFFICES ASSUME IInv, Fork PROVE IInv'
  OBVIOUS
<1> USE TestRunnerAssumption DEF fileVars, runnerVars, history, Tests, Running, Over
<1>1. Types'
  BY DEF IInv, Types, Phase, Marks, Fork
<1>2. Phase'
  BY DEF IInv, Types, Phase, Future, Killed, Fork
<1>3. Future'
  BY DEF IInv, Types, Phase, Future, Fork
<1>4. File'
  BY DEF IInv, Types, Phase, Future, File, Killed, Clean, Quiet, Started, OwnOutput, Fork
<1>5. Passes'
  <2>1. \A u \in Tests : Good(u) => Good(u)'
    BY DEF Good, Clean, Fork
  <2>2. \A u \in Tests : verdict'[u] = "pass" => Good(u)'
    BY <2>1 DEF IInv, Passes, Fork
  <2>3. \A u \in Tests : test'[u] = "exit0" => Good(u)'
    BY <2>1 DEF IInv, Types, Passes, Fork
  <2>4. ASSUME pc' \in {"disarm", "kill", "result"}, passed' PROVE Good(cur)'
    <3>1. cur \in Tests /\ Good(cur)
      BY <2>4 DEF IInv, Types, Phase, Passes, Fork
    <3> QED BY <3>1 DEF Good, Clean, Fork
  <2> QED BY <2>2, <2>3, <2>4 DEF Passes
<1> QED BY <1>1, <1>2, <1>3, <1>4, <1>5 DEF IInv

\* A test that ran inline returns or takes the runner with it.
LEMMA InlineStep == IInv /\ Inline => IInv'
<1> SUFFICES ASSUME IInv, Inline PROVE IInv'
  OBVIOUS
<1> USE TestRunnerAssumption DEF fileVars, runnerVars, history, Tests, Running, Over
<1>1. Types'
  BY DEF IInv, Types, Phase, Marks, Inline
<1>2. Phase'
  BY DEF IInv, Types, Phase, Future, Killed, Inline
<1>3. Future'
  BY DEF IInv, Types, Phase, Future, Inline
<1>4. File'
  BY DEF IInv, Types, Phase, Future, File, Killed, Clean, Quiet, Started, OwnOutput, Inline
<1>5. Passes'
  BY DEF IInv, Types, Phase, Future, File, Killed, Clean, Quiet, OwnOutput, Passes, Good, Inline
<1> QED BY <1>1, <1>2, <1>3, <1>4, <1>5 DEF IInv

\* The alarm is set.
LEMMA ArmStep == IInv /\ Arm => IInv'
<1> SUFFICES ASSUME IInv, Arm PROVE IInv'
  OBVIOUS
<1> USE TestRunnerAssumption DEF fileVars, runnerVars, history, Tests, Running, Over
<1>1. Types'
  BY DEF IInv, Types, Phase, Marks, Arm
<1>2. Phase'
  BY DEF IInv, Types, Phase, Future, Killed, Arm
<1>3. Future'
  BY DEF IInv, Types, Phase, Future, Arm
<1>4. File'
  BY DEF IInv, Types, Phase, Future, File, Killed, Clean, Quiet, Started, OwnOutput, Arm
<1>5. Passes'
  BY DEF IInv, Types, Phase, Future, File, Killed, Clean, Quiet, OwnOutput, Passes, Good, Arm
<1> QED BY <1>1, <1>2, <1>3, <1>4, <1>5 DEF IInv

\* The process of the test has ended and is reaped.
LEMMA WaitTestStep == IInv /\ WaitTest => IInv'
<1> SUFFICES ASSUME IInv, WaitTest PROVE IInv'
  OBVIOUS
<1> USE TestRunnerAssumption DEF fileVars, runnerVars, history, Tests, Running, Over
<1>1. Types'
  BY DEF IInv, Types, Phase, Marks, WaitTest
<1>2. Phase'
  BY DEF IInv, Types, Phase, Future, Killed, WaitTest
<1>3. Future'
  BY DEF IInv, Types, Phase, Future, WaitTest
<1>4. File'
  BY DEF IInv, Types, Phase, Future, File, Killed, Clean, Quiet, Started, OwnOutput, WaitTest
<1>5. Passes'
  <2>1. \A u \in Tests : Good(u) => Good(u)'
    BY DEF Good, Clean, WaitTest
  <2>2. \A u \in Tests : verdict'[u] = "pass" => Good(u)'
    BY <2>1 DEF IInv, Passes, WaitTest
  <2>3. \A u \in Tests : test'[u] = "exit0" => Good(u)'
    BY <2>1 DEF IInv, Types, Passes, WaitTest
  <2>4. ASSUME pc' \in {"disarm", "kill", "result"}, passed' PROVE Good(cur)'
    <3>1. cur \in Tests /\ Good(cur)
      BY <2>4 DEF IInv, Types, Phase, Passes, WaitTest
    <3> QED BY <3>1 DEF Good, Clean, WaitTest
  <2> QED BY <2>2, <2>3, <2>4 DEF Passes
<1> QED BY <1>1, <1>2, <1>3, <1>4, <1>5 DEF IInv

\* The alarm kills the process, if it is there.
LEMMA AlarmFiresStep == IInv /\ AlarmFires => IInv'
<1> SUFFICES ASSUME IInv, AlarmFires PROVE IInv'
  OBVIOUS
<1> USE TestRunnerAssumption DEF fileVars, runnerVars, history, Tests, Running, Over
<1>1. Types'
  BY DEF IInv, Types, Phase, Marks, AlarmFires
<1>2. Phase'
  BY DEF IInv, Types, Phase, Future, Killed, AlarmFires
<1>3. Future'
  BY DEF IInv, Types, Phase, Future, AlarmFires
<1>4. File'
  BY DEF IInv, Types, Phase, Future, File, Killed, Clean, Quiet, Started, OwnOutput, AlarmFires
<1>5. Passes'
  <2>1. \A u \in Tests : Good(u) => Good(u)'
    BY DEF Good, Clean, AlarmFires
  <2>2. \A u \in Tests : verdict'[u] = "pass" => Good(u)'
    BY <2>1 DEF IInv, Passes, AlarmFires
  <2>3. \A u \in Tests : test'[u] = "exit0" => Good(u)'
    BY <2>1 DEF IInv, Types, Passes, AlarmFires
  <2>4. ASSUME pc' \in {"disarm", "kill", "result"}, passed' PROVE Good(cur)'
    <3>1. cur \in Tests /\ Good(cur)
      BY <2>4 DEF IInv, Types, Phase, Passes, AlarmFires
    <3> QED BY <3>1 DEF Good, Clean, AlarmFires
  <2> QED BY <2>2, <2>3, <2>4 DEF Passes
<1> QED BY <1>1, <1>2, <1>3, <1>4, <1>5 DEF IInv

\* The alarm is cancelled.
LEMMA DisarmStep == IInv /\ Disarm => IInv'
<1> SUFFICES ASSUME IInv, Disarm PROVE IInv'
  OBVIOUS
<1> USE TestRunnerAssumption DEF fileVars, runnerVars, history, Tests, Running, Over
<1>1. Types'
  BY DEF IInv, Types, Phase, Marks, Disarm
<1>2. Phase'
  BY DEF IInv, Types, Phase, Future, Killed, Disarm
<1>3. Future'
  BY DEF IInv, Types, Phase, Future, Disarm
<1>4. File'
  BY DEF IInv, Types, Phase, Future, File, Killed, Clean, Quiet, Started, OwnOutput, Disarm
<1>5. Passes'
  BY DEF IInv, Types, Phase, Future, File, Killed, Clean, Quiet, OwnOutput, Passes, Good, Disarm
<1> QED BY <1>1, <1>2, <1>3, <1>4, <1>5 DEF IInv

\* The process is killed once more.
LEMMA KillTestStep == IInv /\ KillTest => IInv'
<1> SUFFICES ASSUME IInv, KillTest PROVE IInv'
  OBVIOUS
<1> USE TestRunnerAssumption DEF fileVars, runnerVars, history, Tests, Running, Over
<1>1. Types'
  BY DEF IInv, Types, Phase, Marks, KillTest
<1>2. Phase'
  BY DEF IInv, Types, Phase, Future, Killed, KillTest
<1>3. Future'
  BY DEF IInv, Types, Phase, Future, KillTest
<1>4. File'
  BY DEF IInv, Types, Phase, Future, File, Killed, Clean, Quiet, Started, OwnOutput, KillTest
<1>5. Passes'
  <2>1. \A u \in Tests : Good(u) => Good(u)'
    BY DEF Good, Clean, KillTest
  <2>2. \A u \in Tests : verdict'[u] = "pass" => Good(u)'
    BY <2>1 DEF IInv, Passes, KillTest
  <2>3. \A u \in Tests : test'[u] = "exit0" => Good(u)'
    BY <2>1 DEF IInv, Types, Passes, KillTest
  <2>4. ASSUME pc' \in {"disarm", "kill", "result"}, passed' PROVE Good(cur)'
    <3>1. cur \in Tests /\ Good(cur)
      BY <2>4 DEF IInv, Types, Phase, Passes, KillTest
    <3> QED BY <3>1 DEF Good, Clean, KillTest
  <2> QED BY <2>2, <2>3, <2>4 DEF Passes
<1> QED BY <1>1, <1>2, <1>3, <1>4, <1>5 DEF IInv

\* The verdict is given.
LEMMA ReportStep == IInv /\ Report => IInv'
<1> SUFFICES ASSUME IInv, Report PROVE IInv'
  OBVIOUS
<1> USE TestRunnerAssumption DEF fileVars, runnerVars, history, Tests, Running, Over
<1>1. Types'
  BY DEF IInv, Types, Phase, Marks, Report, Result
<1>2. Phase'
  BY DEF IInv, Types, Phase, Future, Killed, Report, Result
<1>3. Future'
  BY DEF IInv, Types, Phase, Future, Report, Result
<1>4. File'
  <2>1. /\ cur \in Tests /\ cur' = cur + 1 /\ sent' = sent /\ out' = out
        /\ test' = test /\ program' = program /\ alone' = alone
    BY DEF IInv, Types, Report
  <2>2. ASSUME Clean(cur)'
        PROVE  /\ \A u \in 1..(cur' - 1) : Quiet(u)
               /\ cur' \in Tests => program[cur'] = "none"
    <3>1. Clean(cur) /\ verdict'[cur] # "timeout"
      <4>1. \A u \in 1..cur : verdict'[u] # "timeout"
        BY <2>1, <2>2 DEF IInv, Types, Clean
      <4>2. \A u \in 1..(cur - 1) : verdict'[u] = verdict[u]
        BY <2>1 DEF IInv, Types, Report
      <4> QED BY <2>1, <4>1, <4>2 DEF IInv, Types, Clean
    <3>2. ~(sent /\ child_pid # -1)
      BY <2>1, <3>1 DEF IInv, Types, Report, Result
    <3>3. Quiet(cur)
      BY <2>1, <3>2 DEF IInv, Phase, File, Report, Killed
    <3>4. \A u \in 1..(cur - 1) : Quiet(u)
      BY <3>1 DEF IInv, File
    <3>5. cur' \in Tests => program[cur'] = "none"
      BY <2>1 DEF IInv, Types, Future
    <3> QED BY <2>1, <3>3, <3>4, <3>5
  <2>3. cur' \in Tests => test'[cur'] = "none"
    BY <2>1 DEF IInv, Types, Future
  <2> QED BY <2>1, <2>2, <2>3 DEF IInv, File, Quiet
<1>5. Passes'
  <2>1. /\ cur \in Tests /\ cur' = cur + 1 /\ pc' = "next" /\ pc = "result"
        /\ test' = test /\ judged' = judged /\ alone' = alone
    BY DEF IInv, Types, Report
  <2>2. \A u \in Tests : u # cur => verdict'[u] = verdict[u]
    BY DEF IInv, Types, Report
  <2>3. \A u \in Tests : Good(u) => Good(u)'
    <3>1. \A u \in Tests : verdict[u] = "timeout" => verdict'[u] = "timeout"
      BY <2>1, <2>2 DEF IInv, Future
    <3>2. \A u \in Tests : ~Clean(u) => ~Clean(u)'
      BY <3>1 DEF Clean
    <3> QED BY <2>1, <3>2 DEF Good
  <2>4. verdict'[cur] = "pass" => passed
    BY <2>1 DEF IInv, Types, Report, Result
  <2>5. verdict'[cur] = "pass" => Good(cur)
    BY <2>1, <2>4 DEF IInv, Passes
  <2> QED BY <2>1, <2>2, <2>3, <2>5 DEF IInv, Passes
<1> QED BY <1>1, <1>2, <1>3, <1>4, <1>5 DEF IInv

\* There is no test left.
LEMMA FinishStep == IInv /\ Finish => IInv'
<1> SUFFICES ASSUME IInv, Finish PROVE IInv'
  OBVIOUS
<1> USE TestRunnerAssumption DEF fileVars, runnerVars, history, Tests, Running, Over
<1>1. Types'
  BY DEF IInv, Types, Phase, Marks, Finish, More, Nothing
<1>2. Phase'
  BY DEF IInv, Types, Phase, Future, Killed, Finish, More, Nothing
<1>3. Future'
  BY DEF IInv, Types, Phase, Future, Finish, More, Nothing
<1>4. File'
  BY DEF IInv, Types, Phase, Future, File, Killed, Clean, Quiet, Started, OwnOutput, Finish, More, Nothing
<1>5. Passes'
  BY DEF IInv, Types, Phase, Future, File, Killed, Clean, Quiet, OwnOutput, Passes, Good, Finish, More, Nothing
<1> QED BY <1>1, <1>2, <1>3, <1>4, <1>5 DEF IInv

\* The test forks its program, or cannot.
LEMMA ForkProgramStep == ASSUME NEW t \in Tests PROVE IInv /\ ForkProgram(t) => IInv'
<1> SUFFICES ASSUME IInv, ForkProgram(t) PROVE IInv'
  OBVIOUS
<1> USE TestRunnerAssumption DEF fileVars, runnerVars, history, Tests, Running, Over
<1>1. Types'
  <2>1. alone' \in [Tests -> BOOLEAN]
    BY DEF IInv, Types, ForkProgram
  <2> QED BY <2>1 DEF IInv, Types, Phase, ForkProgram
<1>2. Phase'
  BY DEF IInv, Types, Phase, Future, Killed, ForkProgram
<1>3. Future'
  BY DEF IInv, Types, Phase, Future, ForkProgram
<1>4. File'
  <2>1. cur = t /\ pc \in {"arm", "inline", "wait"} /\ program[t] = "none" /\ ~alone[t]
    BY DEF IInv, Types, Phase, Future, ForkProgram
  <2>2. Clean(cur)' <=> Clean(cur)
    BY DEF Clean, ForkProgram
  <2>3. \A u \in Tests : u # t => program'[u] = program[u] /\ test'[u] = test[u] /\ alone'[u] = alone[u]
    BY DEF IInv, Types, ForkProgram
  <2>4. \/ test'[t] = "wait" /\ program'[t] = "forked" /\ ~alone'[t]
        \/ test'[t] = "judge" /\ program'[t] = "none" /\ alone'[t]
    BY <2>1 DEF IInv, Types, ForkProgram
  <2>5. cur' = cur /\ sent' = sent
    BY DEF ForkProgram
  <2> QED BY <2>1, <2>2, <2>3, <2>4, <2>5 DEF IInv, Types, File, Quiet
<1>5. Passes'
  <2>1. cur = t /\ pc \in {"arm", "inline", "wait"} /\ pc' = pc
    BY DEF IInv, Types, Phase, ForkProgram
  <2>2. \A u \in Tests : alone[u] => alone'[u]
    BY DEF IInv, Types, ForkProgram
  <2>3. \A u \in Tests : Good(u) => Good(u)'
    BY <2>2 DEF Good, Clean, ForkProgram
  <2>4. \A u \in Tests : test'[u] = "exit0" => test[u] = "exit0"
    BY DEF IInv, Types, ForkProgram
  <2> QED BY <2>1, <2>3, <2>4 DEF IInv, Passes, ForkProgram
<1> QED BY <1>1, <1>2, <1>3, <1>4, <1>5 DEF IInv

\* The program of the test has ended.
LEMMA WaitProgramStep == ASSUME NEW t \in Tests PROVE IInv /\ WaitProgram(t) => IInv'
<1> SUFFICES ASSUME IInv, WaitProgram(t) PROVE IInv'
  OBVIOUS
<1> USE TestRunnerAssumption DEF fileVars, runnerVars, history, Tests, Running, Over
<1>1. Types'
  BY DEF IInv, Types, Phase, Marks, WaitProgram
<1>2. Phase'
  BY DEF IInv, Types, Phase, Future, Killed, WaitProgram
<1>3. Future'
  BY DEF IInv, Types, Phase, Future, WaitProgram
<1>4. File'
  BY DEF IInv, Types, Phase, Future, File, Killed, Clean, Quiet, Started, OwnOutput, WaitProgram
<1>5. Passes'
  <2>1. \A u \in Tests : Good(u) => Good(u)'
    BY DEF Good, Clean, WaitProgram
  <2>2. \A u \in Tests : verdict'[u] = "pass" => Good(u)'
    BY <2>1 DEF IInv, Passes, WaitProgram
  <2>3. \A u \in Tests : test'[u] = "exit0" => Good(u)'
    BY <2>1 DEF IInv, Types, Passes, WaitProgram
  <2>4. ASSUME pc' \in {"disarm", "kill", "result"}, passed' PROVE Good(cur)'
    <3>1. cur \in Tests /\ Good(cur)
      BY <2>4 DEF IInv, Types, Phase, Passes, WaitProgram
    <3> QED BY <3>1 DEF Good, Clean, WaitProgram
  <2> QED BY <2>2, <2>3, <2>4 DEF Passes
<1> QED BY <1>1, <1>2, <1>3, <1>4, <1>5 DEF IInv

\* The test looks at the file.
LEMMA JudgeStep == ASSUME NEW t \in Tests PROVE IInv /\ Judge(t) => IInv'
<1> SUFFICES ASSUME IInv, Judge(t) PROVE IInv'
  OBVIOUS
<1> USE TestRunnerAssumption DEF fileVars, runnerVars, history, Tests, Running, Over
<1>1. Types'
  BY DEF IInv, Types, Phase, Marks, Judge
<1>2. Phase'
  BY DEF IInv, Types, Phase, Future, Killed, Judge
<1>3. Future'
  BY DEF IInv, Types, Phase, Future, Judge
<1>4. File'
  BY DEF IInv, Types, Phase, Future, File, Killed, Clean, Quiet, Started, OwnOutput, Judge
<1>5. Passes'
  <2>1. cur = t /\ pc \in {"arm", "inline", "wait"} /\ pc' = pc
    BY DEF IInv, Types, Phase, Judge
  <2>2. \A u \in Tests : u # t => judged'[u] = judged[u] /\ test'[u] = test[u]
    BY DEF IInv, Types, Judge
  <2>3. \A u \in Tests : u # t /\ Good(u) => Good(u)'
    BY <2>2 DEF Good, Clean, Judge
  <2>4. Good(t)'
    <3>1. judged'[t] = out /\ alone' = alone /\ verdict' = verdict
      BY DEF IInv, Types, Judge
    <3>2. alone[t] \/ ~Clean(t) \/ out = OwnOutput(t)
      BY <2>1 DEF IInv, File, Judge
    <3> QED BY <3>1, <3>2 DEF Good, Clean
  <2> QED BY <2>1, <2>2, <2>3, <2>4 DEF IInv, Passes, Judge
<1> QED BY <1>1, <1>2, <1>3, <1>4, <1>5 DEF IInv

\* A program empties the file: only a killed test leaves one that can.
LEMMA StartProgramStep == ASSUME NEW t \in Tests PROVE IInv /\ StartProgram(t) => IInv'
<1> SUFFICES ASSUME IInv, StartProgram(t) PROVE IInv'
  OBVIOUS
<1> USE TestRunnerAssumption DEF fileVars, runnerVars, history, Tests, Running, Over
<1>1. Types'
  BY DEF IInv, Types, Phase, Marks, StartProgram
<1>2. Phase'
  BY DEF IInv, Types, Phase, Future, Killed, StartProgram
<1>3. Future'
  BY DEF IInv, Types, Phase, Future, StartProgram
<1>4. File'
  BY DEF IInv, Types, Phase, Future, File, Killed, Clean, Quiet, Started, OwnOutput, StartProgram
<1>5. Passes'
  BY DEF IInv, Types, Phase, Future, File, Killed, Clean, Quiet, OwnOutput, Passes, Good, StartProgram
<1> QED BY <1>1, <1>2, <1>3, <1>4, <1>5 DEF IInv

\* A program has written all it had.
LEMMA EndProgramStep == ASSUME NEW t \in Tests PROVE IInv /\ EndProgram(t) => IInv'
<1> SUFFICES ASSUME IInv, EndProgram(t) PROVE IInv'
  OBVIOUS
<1> USE TestRunnerAssumption DEF fileVars, runnerVars, history, Tests, Running, Over
<1>1. Types'
  BY DEF IInv, Types, Phase, Marks, EndProgram
<1>2. Phase'
  BY DEF IInv, Types, Phase, Future, Killed, EndProgram
<1>3. Future'
  BY DEF IInv, Types, Phase, Future, EndProgram
<1>4. File'
  <2>1. program[t] = "writing" /\ program'[t] = "ended"
    BY DEF IInv, Types, EndProgram
  <2>2. \A u \in Tests : u # t => program'[u] = program[u]
    BY DEF IInv, Types, EndProgram
  <2>3. test' = test /\ alone' = alone /\ verdict' = verdict /\ cur' = cur /\ sent' = sent
    BY DEF EndProgram
  <2>4. Clean(cur)' <=> Clean(cur)
    BY <2>3 DEF Clean
  <2>5. ASSUME Clean(cur)
        PROVE  /\ \A u \in 1..(cur - 1) : Quiet(u)'
               /\ cur \in Tests => /\ program'[cur] = "writing" => out' = Started(cur)
                                   /\ program'[cur] = "ended" => out' = OwnOutput(cur)
    <3>1. \A u \in 1..(cur - 1) : Quiet(u)'
      BY <2>1, <2>2, <2>5 DEF IInv, Types, File, Quiet
    <3>2. CASE t = cur
      <4>1. out = Started(cur)
        BY <2>1, <2>5, <3>2 DEF IInv, File
      <4>2. out' = OwnOutput(cur)
        BY <4>1, <3>2 DEF Started, OwnOutput, EndProgram
      <4> QED BY <2>1, <3>1, <3>2, <4>2
    <3>3. CASE t # cur
      <4>1. t \notin 1..(cur - 1)
        BY <2>1, <2>5 DEF IInv, File, Quiet
      <4>2. t > cur
        BY <3>3, <4>1 DEF IInv, Types
      <4> QED BY <2>1, <4>2 DEF IInv, Types, Future
    <3> QED BY <3>2, <3>3
  <2> QED BY <2>1, <2>2, <2>3, <2>4, <2>5 DEF IInv, Types, File, Quiet, OwnOutput, Started
<1>5. Passes'
  BY DEF IInv, Types, Phase, Future, File, Killed, Clean, Quiet, OwnOutput, Passes, Good, EndProgram
<1> QED BY <1>1, <1>2, <1>3, <1>4, <1>5 DEF IInv

\* Whatever is taken of a step in which no variable changes.
LEMMA StutterStep == IInv /\ UNCHANGED vars => IInv'
BY DEF IInv, Types, Phase, Future, File, Passes, Killed, Clean, Quiet, Started, OwnOutput, Good,
       vars, runnerVars, fileVars, history

-----------------------------------------------------------------------------
(* Theorems.                                                               *)

\* The invariant holds in every reachable state.
THEOREM Invariance == Spec => []IInv
<1>1. IInv /\ [Next]_vars => IInv'
  <2> SUFFICES ASSUME IInv, [Next]_vars PROVE IInv'
    OBVIOUS
  <2>1. CASE Runner
    BY <2>1, RunOneTestStep, ForkStep, InlineStep, ArmStep, WaitTestStep, DisarmStep,
       KillTestStep, ReportStep, FinishStep DEF Runner
  <2>2. CASE AlarmFires
    BY <2>2, AlarmFiresStep
  <2>3. CASE \E t \in Tests : Test(t) \/ Program(t)
    BY <2>3, ForkProgramStep, WaitProgramStep, JudgeStep, StartProgramStep, EndProgramStep
    DEF Test, Program
  <2>4. CASE UNCHANGED vars
    BY <2>4, StutterStep
  <2> QED BY <2>1, <2>2, <2>3, <2>4 DEF Next
<1> QED BY InitIInv, <1>1, PTL DEF Spec

\* A test that the runner reports as passed has accepted the complete output of
\* its own program, unless its fork failed or an earlier test was killed; and
\* no process outlives its verdict.
THEOREM PassesAreSound == Spec => []PassMeansPassed
<1>1. IInv => PassMeansPassed
  BY TestRunnerAssumption DEF IInv, Types, Phase, Future, Passes, Good, Clean, PassMeansPassed, Tests
<1> QED BY <1>1, Invariance, PTL

=============================================================================
