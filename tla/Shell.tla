-------------------------------- MODULE Shell --------------------------------
(***************************************************************************)
(* The shell of TeamLastPicked_p2 (shell.c, getStrings.c): it reads a line,  *)
(* splits it at semicolons, forks a child for each command, waits for the  *)
(* ones that are not jobs as it goes, and for the rest at the end of the   *)
(* line.  The input is a terminal, or a file: then the children share the  *)
(* offset of the file with the shell.                                      *)
(*                                                                         *)
(* A character is one of Chars: "q" stands for the four letters of quit,   *)
(* "nl" for the end of a line and "FF" for the byte 255, which fgetc       *)
(* returns as a char that equals EOF.  Memory does not run out.            *)
(***************************************************************************)
EXTENDS Integers, FiniteSets, SequencesExt

CONSTANTS Texts,        \* what may be in the input
          MaxCommands   \* bound: commands of a line

Chars == {"x", "y", "q", "&", " ", ";", "nl", "FF"}

ASSUME ShellAssumption == MaxCommands \in Nat /\ Texts \subseteq Seq(Chars)

VARIABLES text,         \* what is in the input
          seekable,     \* it is a file
          pos,          \* next character in the shell's stdio buffer
          offset,       \* offset of the open file, shared with the children
          pc,           \* where the shell is
          keep_running,
          cmds,         \* commands of the line that are still to run
          i,            \* number of commands taken, then of waits to come
          pid,          \* the child that waitpid waits for; -1 after a failed fork
          children,     \* the processes not yet waited for: [pid -> state]
          attempts,     \* history: the commands the shell tried to run
          rewound       \* history: a child has moved the offset

vars == <<text, seekable, pos, offset, pc, keep_running, cmds, i, pid, children,
          attempts, rewound>>

End == Len(text) + 1

-----------------------------------------------------------------------------
(* getStringFromFile.  The buffer holds the rest of the file (bound: a file *)
(* is not longer than a buffer), so that it is refilled at its end only,   *)
(* from wherever the shared offset is then.                                *)

\* The line, whether the input ended with it, and where fgetc has got to.
GetStringFromFile ==
  LET rest == SubSeq(text, pos, End - 1) \o SubSeq(text, offset, End - 1)
      stops == {k \in 1..Len(rest) : rest[k] \in {"nl", "FF"}}
      len == IF stops = {} THEN Len(rest) ELSE Min(stops) - 1
      taken == IF stops = {} THEN len ELSE len + 1
      inBuffer == taken <= End - pos
  IN  [str |-> SubSeq(rest, 1, len),
       eof |-> stops = {} \/ rest[len + 1] = "FF",
       pos |-> IF inBuffer THEN pos + taken ELSE offset + taken - (End - pos),
       offset |-> IF inBuffer THEN offset ELSE End]

-----------------------------------------------------------------------------
(* Parsing.                                                                *)

\* The longest stretches of s without a character in delims: what strtok
\* returns one after the other.
Stretches(s, delims) ==
  LET starts == {k \in 1..Len(s) : s[k] \notin delims /\ (k = 1 \/ s[k - 1] \in delims)}
      From(n) == CHOOSE k \in starts : Cardinality({j \in starts : j <= k}) = n
      To(k) == Max({e \in k..Len(s) : \A m \in k..e : s[m] \notin delims})
  IN  [n \in 1..Cardinality(starts) |-> SubSeq(s, From(n), To(From(n)))]

GetCommands(line) == Stretches(line, {";"})

\* Mutant: the state does not change when a blank ends a word.
ScanJoined(s, c) ==
  CASE c = " "              -> s
    [] c # " " /\ ~s.inWord -> [words |-> Append(s.words, <<c>>), inWord |-> TRUE]
    [] OTHER                -> [s EXCEPT !.words[Len(s.words)] = Append(@, c)]

Scan(s, c) ==
  CASE c = " "              -> [s EXCEPT !.inWord = FALSE]
    [] c # " " /\ ~s.inWord -> [words |-> Append(s.words, <<c>>), inWord |-> TRUE]
    [] OTHER                -> [s EXCEPT !.words[Len(s.words)] = Append(@, c)]

SplitCommandAndArgs(line) == FoldLeft(Scan, [words |-> << >>, inWord |-> FALSE], line).words

Quit == <<"q">>
IsQuit(args) == args # << >> /\ Head(args) = Quit
IsJob(args) == Last(args) = <<"&">>

-----------------------------------------------------------------------------
(* The shell.                                                              *)

Init == /\ text \in Texts /\ seekable \in BOOLEAN
        /\ pos = End /\ offset = 1
        /\ pc = "prompt" /\ keep_running = TRUE
        /\ cmds = << >> /\ i = 0 /\ pid = 0 /\ children = << >>
        /\ attempts = << >> /\ rewound = FALSE

\* At the end of the input, with nothing on the line, the shell stops.
ReadLine ==
  /\ pc = "prompt"
  /\ \E in \in {GetStringFromFile} :
       /\ pos' = in.pos /\ offset' = in.offset
       /\ IF in.eof /\ in.str = << >>
          THEN pc' = "done" /\ UNCHANGED <<cmds, i>>
          ELSE \E tokens \in {GetCommands(in.str)} :
                 /\ pc' = "run" /\ i' = 0
                 /\ cmds' = [n \in 1..Len(tokens) |-> SplitCommandAndArgs(tokens[n])]
  /\ UNCHANGED <<text, seekable, keep_running, pid, children, attempts, rewound>>

\* A command without words, or quit: the rest of the line still runs.
NoChild ==
  /\ pc = "run" /\ cmds # << >>
  /\ Head(cmds) = << >> \/ IsQuit(Head(cmds))
  /\ keep_running' = (keep_running /\ Head(cmds) = << >>)
  /\ cmds' = Tail(cmds) /\ i' = i + 1
  /\ UNCHANGED <<text, seekable, pos, offset, pc, pid, children, attempts, rewound>>

\* fork fails, or starts a child that is numbered by its place in the line.
Fork ==
  /\ pc = "run" /\ cmds # << >>
  /\ Head(cmds) # << >> /\ ~IsQuit(Head(cmds))
  /\ \/ pid' = -1 /\ UNCHANGED children
     \/ pid' = i + 1 /\ children' = [n \in DOMAIN children \cup {i + 1} |->
                                       IF n = i + 1 THEN "forked" ELSE children[n]]
  /\ pc' = IF IsJob(Head(cmds)) THEN "run" ELSE "foreground"
  /\ cmds' = Tail(cmds) /\ i' = i + 1
  /\ attempts' = IF rewound THEN attempts ELSE Append(attempts, Head(cmds))
  /\ UNCHANGED <<text, seekable, pos, offset, keep_running, rewound>>

\* wait and waitpid take an ended child out of the table, wait until there is
\* one, and fail at once if there is no child at all.
Reap(who) ==
  \/ \E n \in who \cap DOMAIN children :
       /\ children[n] = "ended"
       /\ children' = [m \in DOMAIN children \ {n} |-> children[m]]
  \/ who \cap DOMAIN children = {} /\ UNCHANGED children

\* After a failed fork waitpid(-1) takes any child, a job too.
WaitForeground ==
  /\ pc = "foreground"
  /\ Reap(IF pid = -1 THEN DOMAIN children ELSE {pid})
  /\ pc' = "run"
  /\ UNCHANGED <<text, seekable, pos, offset, keep_running, cmds, i, pid, attempts, rewound>>

\* Mutant: one wait too few.
EndOfCommandsLess ==
  /\ pc = "run" /\ cmds = << >>
  /\ pc' = "wait" /\ i' = IF i > 0 THEN i - 1 ELSE 0
  /\ UNCHANGED <<text, seekable, pos, offset, keep_running, cmds, pid, children, attempts, rewound>>

EndOfCommands ==
  /\ pc = "run" /\ cmds = << >>
  /\ pc' = "wait"
  /\ UNCHANGED <<text, seekable, pos, offset, keep_running, cmds, i, pid, children, attempts, rewound>>

\* Mutant: waits until there is a child to take.
WaitChildOnly ==
  /\ pc = "wait" /\ i > 0
  /\ children # << >> /\ Reap(DOMAIN children)
  /\ i' = i - 1
  /\ UNCHANGED <<text, seekable, pos, offset, pc, keep_running, cmds, pid, attempts, rewound>>

\* One wait for each command of the line, whether it has a child or not.
WaitChild ==
  /\ pc = "wait" /\ i > 0
  /\ Reap(DOMAIN children)
  /\ i' = i - 1
  /\ UNCHANGED <<text, seekable, pos, offset, pc, keep_running, cmds, pid, attempts, rewound>>

EndOfLine ==
  /\ pc = "wait" /\ i = 0
  /\ pc' = IF keep_running THEN "prompt" ELSE "done"
  /\ UNCHANGED <<text, seekable, pos, offset, keep_running, cmds, i, pid, children, attempts, rewound>>

-----------------------------------------------------------------------------
(* The children.                                                           *)

Exec(n) ==
  /\ n \in DOMAIN children /\ children[n] = "forked"
  /\ children' = [children EXCEPT ![n] = "running"]
  /\ UNCHANGED <<text, seekable, pos, offset, pc, keep_running, cmds, i, pid, attempts, rewound>>

\* execvp returns: the child calls exit, and stdio moves the offset back over
\* what is left in the child's copy of the buffer, if it can be moved that far.
ExecFails(n) ==
  LET back == offset - (End - pos)
  IN  /\ n \in DOMAIN children /\ children[n] = "forked"
      /\ children' = [children EXCEPT ![n] = "ended"]
      /\ IF seekable /\ pos < End /\ back >= 1
         THEN offset' = back /\ rewound' = TRUE
         ELSE UNCHANGED <<offset, rewound>>
      /\ UNCHANGED <<text, seekable, pos, pc, keep_running, cmds, i, pid, attempts>>

Exit(n) ==
  /\ n \in DOMAIN children /\ children[n] = "running"
  /\ children' = [children EXCEPT ![n] = "ended"]
  /\ UNCHANGED <<text, seekable, pos, offset, pc, keep_running, cmds, i, pid, attempts, rewound>>

Shell == ReadLine \/ NoChild \/ Fork \/ WaitForeground \/ EndOfCommands \/ WaitChild \/ EndOfLine
Child(n) == Exec(n) \/ ExecFails(n) \/ Exit(n)
Next == Shell \/ \E n \in DOMAIN children : Child(n)

\* The shell and its children are processes that get the CPU again and again;
\* that a command ends is what a foreground command is waited for.
Spec == Init /\ [][Next]_vars /\ WF_vars(Shell)
             /\ \A n \in 1..MaxCommands : WF_vars(Child(n))

-----------------------------------------------------------------------------
(* Properties.                                                             *)

\* Each time the shell asks for a line, and when it ends, no child of the
\* lines before is left, running or as a zombie: neither failed forks, nor
\* waits that took a job instead, nor empty commands upset the count.
ChildrenReaped == pc \in {"prompt", "done"} => children = << >>

\* What the text asks for: the lines up to the first with a quit in it (a byte
\* 255 ends a line, and at the start of a line it ends the text), and of their
\* commands those that have words and are not quit.
Ends == {"nl", "FF"}
UpToFF(t) ==
  LET stops == {n \in 1..Len(t) : t[n] = "FF" /\ (n = 1 \/ t[n - 1] \in Ends)}
  IN  IF stops = {} THEN t ELSE SubSeq(t, 1, Min(stops) - 1)

WordsOf(s) == Stretches(s, {" "})
CommandsOf(line) ==
  LET parts == Stretches(line, {";"})
  IN  [n \in 1..Len(parts) |-> WordsOf(parts[n])]
LinesOf(t) ==
  LET all == Stretches(UpToFF(t), Ends)
  IN  [n \in 1..Len(all) |-> CommandsOf(all[n])]

HasQuit(line) == \E k \in 1..Len(line) : IsQuit(line[k])
UpToQuit(lines) ==
  LET quits == {n \in 1..Len(lines) : HasQuit(lines[n])}
  IN  IF quits = {} THEN lines ELSE SubSeq(lines, 1, Min(quits))

AddCommand(out, args) == IF args = << >> \/ IsQuit(args) THEN out ELSE Append(out, args)
AddLine(out, line) == FoldLeft(AddCommand, out, line)

Wanted == [t \in Texts |-> FoldLeft(AddLine, << >>, UpToQuit(LinesOf(t)))]

\* As long as no child has moved the offset of the input, the shell tries to
\* run what the text asks for, in its order and each command once, and it does
\* not end before it has tried all.
RunsAsWritten ==
  ~rewound => /\ IsPrefix(attempts, Wanted[text])
              /\ pc = "done" => attempts = Wanted[text]

\* If the commands end the shell does, at the end of its input or after quit,
\* unless a child moves the offset back: then lines are read again, possibly
\* for ever.
ShellEnds == <>(pc = "done" \/ rewound)
==============================================================================
