------------------------------- MODULE ProcInfo -------------------------------
(***************************************************************************)
(* The information stream of sys_OpenInfo() (kernel_proc.c): a cursor that *)
(* moves over the table of processes while it changes.  PT maps a pid to   *)
(* its state.  The fields that describe a process are left out.            *)
(* A read writes them to *info and copies from the address of info: the    *)
(* reader gets the pointer and what lies behind it, and no process.        *)
(***************************************************************************)
EXTENDS Integers, Sequences, SequencesExt, FiniteSetsExt

CONSTANT MAX_PROC

NOPROC == -1

Pids == 0 .. (MAX_PROC - 1)

\* One call of procinfo_read(): the process it describes in *info, the next
\* one that is in use, and what it puts into buf; at the end it returns 0 and
\* buf stays.  The last entry of the table is never visited.
procinfo_read(cursor, PT) ==
  LET used == {i \in cursor .. (MAX_PROC - 2) : PT[i] # "FREE"}
  IN  IF used = {}
      THEN [cursor |-> Max({cursor, MAX_PROC - 1}), info |-> NOPROC, buf |-> << >>]
      ELSE [cursor |-> Min(used) + 1, info |-> Min(used), buf |-> <<"&info">>]

\* SystemInfo() reads to the end and prints a line per read: what the lines
\* are printed from, and which processes were described meanwhile, when the
\* n-th call sees the n-th of tables.
SystemInfo(tables) ==
  LET Step(s, PT) ==
        LET r == procinfo_read(s.cursor, PT)
        IN  IF s.done THEN s
            ELSE [cursor |-> r.cursor, done |-> r.buf = << >>,
                  printed |-> s.printed \o r.buf,
                  described |-> IF r.info = NOPROC THEN s.described
                                ELSE Append(s.described, r.info)]
  IN  FoldLeft(Step, [cursor |-> 0, done |-> FALSE, printed |-> << >>,
                      described |-> << >>], tables)

=============================================================================
