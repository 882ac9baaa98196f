------------------------------ MODULE TextTools ------------------------------
(***************************************************************************)
(* The programs of the shell that copy, number or count what they read,    *)
(* the towers of Hanoi, and the loop of its remote client that sends       *)
(* (tinyos_shell.c).  A character is a letter, a blank, the end of a line, *)
(* or the byte 255, which fgetc() returns into a char as EOF.              *)
(***************************************************************************)
EXTENDS Integers, Sequences, SequencesExt

Chars  == {"x", "X", " ", "\n", "255"}

\* What the loops see of the input: char is signed, and a byte 255 is EOF.
Visible(in) ==
  LET eof == SelectInSeq(in, LAMBDA c : c = "255")
  IN  IF eof = 0 THEN in ELSE SubSeq(in, 1, eof - 1)

toupper == [c \in Chars |-> IF c = "x" THEN "X" ELSE c]
tolower == [c \in Chars |-> IF c = "X" THEN "x" ELSE c]

Capitalize(in) == [i \in DOMAIN Visible(in) |-> toupper[in[i]]]
LowerCase(in)  == [i \in DOMAIN Visible(in) |-> tolower[in[i]]]

\* Every character with the number printed before it, 0 for none: that of
\* its line, before the first character of a line.
LineEnum(in) ==
  LET Step(s, c) ==
        LET count == IF s.atend THEN s.count + 1 ELSE s.count
        IN  [out   |-> Append(s.out, <<IF s.atend THEN count ELSE 0, c>>),
             count |-> count,
             atend |-> c = "\n"]
  IN  FoldLeft(Step, [out |-> << >>, count |-> 0, atend |-> TRUE], Visible(in)).out

\* Every character, and whether it waits for a key before that: at every
\* page-th line, for which page must not be 0.
More(in, page) ==
  LET Step(s, c) ==
        LET count == IF s.atend THEN s.count + 1 ELSE s.count
        IN  [out   |-> Append(s.out, <<s.atend /\ count % page = 0, c>>),
             count |-> count,
             atend |-> c = "\n"]
  IN  FoldLeft(Step, [out |-> << >>, count |-> 0, atend |-> TRUE], Visible(in)).out

\* isblank('\n') is false: the end of a line is part of a word, or is one.
WordCount(in) ==
  LET Step(s, c) ==
        LET begins == s.wspace /\ c # " "
        IN  [nchar  |-> s.nchar + 1,
             nword  |-> IF begins THEN s.nword + 1 ELSE s.nword,
             nline  |-> IF c = "\n" THEN s.nline + 1 ELSE s.nline,
             wspace |-> IF c \in {" ", "\n"} THEN TRUE
                        ELSE IF begins THEN FALSE ELSE s.wspace]
  IN  FoldLeft(Step, [nchar |-> 0, nword |-> 0, nline |-> 0, wspace |-> TRUE], Visible(in))

-----------------------------------------------------------------------------
\* The moves of n disks from a to b via c.
RECURSIVE hanoi(_, _, _, _)
hanoi(n, a, b, c) ==
  IF n = 0 THEN << >>
  ELSE hanoi(n - 1, a, c, b) \o << <<a, b>> >> \o hanoi(n - 1, c, b, a)

-----------------------------------------------------------------------------
\* Shell(): the lines that it processes, of each at most ARGN - 1 words, until
\* one says exit or there is none.
Shell(lines, ARGN) ==
  LET Step(s, line) ==
        LET argv == SubSeq(line, 1, IF Len(line) < ARGN THEN Len(line) ELSE ARGN - 1)
        IN  IF s.finished \/ argv = << >> THEN s
            ELSE IF Head(argv) = "exit" THEN [s EXCEPT !.finished = TRUE]
            ELSE IF Head(argv) = "?" THEN s
            ELSE [s EXCEPT !.processed = Append(@, argv)]
  IN  FoldLeft(Step, [finished |-> FALSE, processed |-> << >>], lines).processed

\* Repeat(): how often the loop over times--, an integer of w bits, executes
\* the program.  A negative number is refused with a message, but used.
RECURSIVE CountDown(_, _, _)
CountDown(times, executed, w) ==
  IF times = 0 THEN executed
  ELSE CountDown(IF times = -(2 ^ (w - 1)) THEN 2 ^ (w - 1) - 1 ELSE times - 1,
                 executed + 1, w)

Repeat(times, w) == CountDown(times, 0, w)

-----------------------------------------------------------------------------
\* send_message() of len bytes while the calls of Write() return rcs: how
\* many it has sent when it has them all, or when a call has failed.
send_message(len, rcs) ==
  FoldLeft(LAMBDA s, rc : IF s.done \/ s.count >= len THEN s
                          ELSE IF rc < 1 THEN [s EXCEPT !.done = TRUE]
                          ELSE [s EXCEPT !.count = @ + rc],
           [count |-> 0, done |-> FALSE], rcs).count

=============================================================================
