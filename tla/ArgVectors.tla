------------------------------ MODULE ArgVectors ------------------------------
(***************************************************************************)
(* Vectors of strings in an argument buffer (util.h), as Execute() hands   *)
(* them to a process and the client of the remote server to the server.  A *)
(* string is a sequence of characters, 0 is not one of them but ends it.   *)
(***************************************************************************)
EXTENDS Integers, Sequences, SequencesExt

\* The loop copies the 0 of each string, too.
argvpack(argv) == FoldLeft(LAMBDA args, s : args \o s \o <<0>>, << >>, argv)

argvlen(argv) == FoldLeft(LAMBDA l, s : l + Len(s) + 1, 0, argv)

argscount(args) == Len(SelectSeq(args, LAMBDA c : c = 0))

\* The place of the k-th 0, 0 for k = 0.
End(args, k) ==
  CHOOSE p \in 0 .. Len(args) :
    argscount(SubSeq(args, 1, p)) = k /\ (p > 0 => args[p] = 0)

argvunpack(argc, args) ==
  [k \in 1..argc |-> SubSeq(args, End(args, k - 1) + 1, End(args, k) - 1)]

\* exec_wrapper() gets the program and the vector back.
Execute(prog, argv) == <<prog>> \o argvpack(argv)

exec_wrapper(args) ==
  [prog |-> Head(args), argv |-> argvunpack(argscount(Tail(args)), Tail(args))]

\* ParseProcInfo(): what it returns and at most argc strings, when argl tells
\* how long the arguments were and args how they begin.
ParseProcInfo(main_task, argl, args, argc, max) ==
  IF main_task # "exec_wrapper" \/ argl > max THEN [N |-> -1, argv |-> << >>]
  ELSE LET N == argscount(Tail(args))
       IN  [N |-> N, argv |-> argvunpack(IF argc > N THEN N ELSE argc, Tail(args))]

\* What RemoteClient() sends of its arguments: their length, and they.
RemoteClient(argv) ==
  [argl |-> argvlen(Tail(argv)), args |-> argvpack(Tail(argv))]

=============================================================================
