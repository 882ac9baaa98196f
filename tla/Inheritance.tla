----------------------------- MODULE Inheritance -----------------------------
(***************************************************************************)
(* The descriptors that programs hand to the processes they execute: the   *)
(* pipelines of the shell, terminals given to a program, and the standard  *)
(* streams that the first process sets up (tinyos_shell.c, mtask.c,        *)
(* console.c).  A table of descriptors is a function; the calls of the     *)
(* kernel that these programs make yield a new table.  A stream is a pair  *)
(* of its kind and a number.  That descriptors run out, which none of the  *)
(* programs tests, is left out.                                            *)
(***************************************************************************)
EXTENDS Naturals, Sequences, SequencesExt

CONSTANTS MAX_FILEID, NULL

Fids == 0 .. (MAX_FILEID - 1)

None == [i \in Fids |-> NULL]

Lowest(fidt) == CHOOSE i \in Fids : fidt[i] = NULL /\ \A j \in 0..(i - 1) : fidt[j] # NULL

Open(fidt, s) == [fidt EXCEPT ![Lowest(fidt)] = s]

Close(fidt, fid) == [fidt EXCEPT ![fid] = NULL]

Dup2(fidt, oldfd, newfd) ==
  IF fidt[oldfd] = NULL THEN fidt ELSE [fidt EXCEPT ![newfd] = fidt[oldfd]]

Moved(fidt, oldfd, newfd) == Close(Dup2(fidt, oldfd, newfd), oldfd)

Steps(n) == [i \in 1..n |-> i]

-----------------------------------------------------------------------------
(***************************************************************************)
(* A command line: words, some of which are bars.                          *)
(***************************************************************************)

\* Vargv and Vargc.
Fragments(argv) ==
  FoldLeft(LAMBDA frags, word :
             IF word = "|" THEN Append(frags, << >>)
             ELSE Front(frags) \o << Append(Last(frags), word) >>,
           << << >> >>, argv)

\* Only lines whose fragments all begin with a command are executed.
IsExecutable(argv, Commands) ==
  \A i \in DOMAIN Fragments(argv) :
    Fragments(argv)[i] # << >> /\ Head(Fragments(argv)[i]) \in Commands

\* A descriptor of its own for the stream of fid.
savefid(fidt, fid) == Dup2(Open(fidt, <<"null", 0>>), fid, Lowest(fidt))

\* The i-th of n commands of a pipeline is executed with the table out, and
\* what it writes becomes what the next one reads.
ExecuteFragment(s, i, n, savein, saveout) ==
  LET last == i = n
      rd   == Lowest(s.fidt)
      half == Open(s.fidt, <<"reads", i>>)
      out  == IF last THEN Moved(s.fidt, saveout, 1)
              ELSE Moved(Open(half, <<"writes", i>>), Lowest(half), 1)
  IN  [fidt |-> IF last THEN Moved(out, savein, 0) ELSE Moved(out, rd, 0),
       children |-> Append(s.children, out)]

\* process_line() of n commands: the table that it leaves, and those of the
\* processes that it executes and waits for.
process_line(fidt, n) ==
  LET savein  == Lowest(fidt)
      saved   == savefid(fidt, 0)
      saveout == Lowest(saved)
  IN  FoldLeft(LAMBDA s, i : ExecuteFragment(s, i, n, savein, saveout),
               [fidt |-> savefid(saved, 1), children |-> << >>], Steps(n))

-----------------------------------------------------------------------------
(***************************************************************************)
(* Terminals.                                                              *)
(***************************************************************************)

\* A terminal is opened, and moved to fid unless it is there already.
OpenAt(fidt, term, fid) ==
  LET opened == Open(fidt, term)
  IN  IF Lowest(fidt) = fid THEN opened ELSE Moved(opened, Lowest(fidt), fid)

\* RunTerm(): the table of the program, and its own.
RunTerm(fidt, term) == Dup2(OpenAt(fidt, term, 0), 0, 1)

\* boot_shell() with terminals: a shell for each of them.
BootShell(s, term) ==
  LET both == OpenAt(OpenAt(s.fidt, term, 0), term, 1)
  IN  [fidt |-> Close(both, 0), children |-> Append(s.children, both)]

boot_shell(terms) ==
  FoldLeft(BootShell, [fidt |-> None, children |-> << >>], terms)

\* tinyos_pseudo_console() reserves two descriptors and aborts if they are
\* not 0 and 1.
tinyos_pseudo_console(fidt) == Open(Open(fidt, <<"stdio", 0>>), <<"stdio", 0>>)

\* boot_shell() without terminals.
boot_shell_on_console(fidt) == tinyos_pseudo_console(Close(Close(fidt, 0), 1))

\* boot_symposium(): the table of the symposium, with a terminal or without.
boot_symposium(terms) ==
  IF terms = << >> THEN tinyos_pseudo_console(None)
  ELSE OpenAt(OpenAt(None, Head(terms), 0), Head(terms), 1)

=============================================================================
