------------------------------ MODULE MCPrograms ------------------------------
(***************************************************************************)
(* The operators that describe programs and drivers, compared with what    *)
(* they are for on all small inputs.                                       *)
(***************************************************************************)
EXTENDS Integers, Sequences, FiniteSets, SequencesExt, TLC

LastPid == 3
NoStream == [fid |-> -1, mode |-> ""]

Args == INSTANCE ArgVectors
Text == INSTANCE TextTools
Info == INSTANCE ProcInfo WITH MAX_PROC <- LastPid + 1
Dev  == INSTANCE Devices WITH MAX_TERMINALS <- 2, NULL <- NoStream
Bar  == INSTANCE Barriers WITH Threads <- 1..3
Fid  == INSTANCE Inheritance WITH MAX_FILEID <- 8, NULL <- <<"closed", 0>>

-----------------------------------------------------------------------------
\* A vector of strings arrives as it was sent: up to three strings of up to
\* two characters, which may be empty.
Strings == UNION {[1..n -> {1, 2}] : n \in 0..2}

ASSUME ArgumentsArrive ==
  \A n \in 0..3 : \A argv \in [1..n -> Strings] :
    LET args == Args!Execute(7, argv)
        sent == Args!RemoteClient(<<<<1>>>> \o argv)
    IN  /\ Len(args) = 1 + Args!argvlen(argv)
        /\ Len(sent.args) = sent.argl
        /\ Args!argvunpack(Args!argscount(sent.args), sent.args) = argv
        /\ Args!exec_wrapper(args) = [prog |-> 7, argv |-> argv]
        /\ \A k \in 0..4 :
             Args!ParseProcInfo("exec_wrapper", Len(args), args, k, 8) =
               IF Len(args) > 8 THEN [N |-> -1, argv |-> << >>]
               ELSE [N |-> n, argv |-> SubSeq(argv, 1, IF k < n THEN k ELSE n)]

-----------------------------------------------------------------------------
\* The descriptors of a shell, which may have a third.
Term(i) == <<"term", i>>
Shell == [Fid!None EXCEPT ![0] = Term(1), ![1] = Term(2)]
Tables == {Shell, [Shell EXCEPT ![2] = Term(3)], [Shell EXCEPT ![3] = Term(3)]}

Streams(t) == {t[i] : i \in Fid!Fids}

\* Every command of a pipeline reads what the one before it writes.  When
\* the shell waits for them it has its descriptors back, and nobody but the
\* command that writes to a pipe can, so that its reader sees the end.
ASSUME PipelinesConnect ==
  \A fidt \in Tables, n \in 1..4 :
    LET line == Fid!process_line(fidt, n)
    IN  /\ line.fidt = fidt
        /\ \A i \in 1..n :
             /\ line.children[i][0] = IF i = 1 THEN Term(1) ELSE <<"reads", i - 1>>
             /\ line.children[i][1] = IF i = n THEN Term(2) ELSE <<"writes", i>>
        /\ \A i \in 1 .. n - 1 :
             {k \in 1..n : <<"writes", i>> \in Streams(line.children[k])} = {i}

\* Each of them but the last also keeps the end from which the next one
\* reads: when that has exited, its Write does not fail, but sleeps for ever
\* once the pipe is full.
ASSUME WritersKeepReaders ==
  \A n \in 2..4, i \in 1..3 :
    LET line == Fid!process_line(Shell, n)
    IN  i < n => {k \in 1..n : <<"reads", i>> \in Streams(line.children[k])} = {i, i + 1}

\* A line falls into the fragments between its bars.  They are more than its
\* words, for which Vargc has room, if all of them are bars.
Words == {"|", "cap", "junk"}

ASSUME LinesAreSplit ==
  \A argc \in 1..5 : \A argv \in [1..argc -> Words] :
    LET frags == Fid!Fragments(argv)
        bars  == {i \in 1..argc : argv[i] = "|"}
    IN  /\ FoldLeft(LAMBDA l, f : l \o <<"|">> \o f, Head(frags), Tail(frags)) = argv
        /\ Len(frags) = Cardinality(bars) + 1
        /\ Len(frags) > argc <=> bars = 1..argc
        /\ Fid!IsExecutable(argv, {"cap"}) <=>
             /\ \A i \in 1..argc : i \in {1} \cup {j + 1 : j \in bars} => argv[i] = "cap"
             /\ argc \notin bars

\* A shell for each terminal has that terminal and no other descriptor, and
\* so has a program that gets another terminal than its own.
Holds(fidt, s) == fidt = [Fid!None EXCEPT ![0] = s, ![1] = s]

ASSUME TerminalsAreGiven ==
  /\ \A n \in 1..3 : \A i \in 1..n :
       Holds(Fid!boot_shell([k \in 1..n |-> Term(k)]).children[i], Term(i))
  /\ Holds(Fid!RunTerm(Shell, Term(3)), Term(3))
  /\ Holds(Fid!boot_shell_on_console(Fid!None), <<"stdio", 0>>)
  /\ Holds(Fid!boot_symposium(<< >>), <<"stdio", 0>>)
  /\ Holds(Fid!boot_symposium(<<Term(0), Term(1)>>), Term(0))

-----------------------------------------------------------------------------
\* Up to five characters.
Texts == UNION {[1..n -> Text!Chars \ {"255"}] : n \in 0..5}

Ends(in)      == {i \in DOMAIN in : in[i] = "\n"}
Begins(in, i) == i = 1 \/ in[i - 1] = "\n"
LineOf(in, i) == 1 + Cardinality({e \in Ends(in) : e < i})

\* The text goes through; each of its lines has its number, and a pause
\* comes before every page-th.
ASSUME LinesAreCounted ==
  \A in \in Texts :
    /\ Text!LineEnum(in) =
         [i \in DOMAIN in |-> <<IF Begins(in, i) THEN LineOf(in, i) ELSE 0, in[i]>>]
    /\ \A page \in 1..3 :
         Text!More(in, page) =
           [i \in DOMAIN in |-> <<Begins(in, i) /\ LineOf(in, i) % page = 0, in[i]>>]

\* Lines and characters are counted; of the words, those that one expects,
\* and one more for every line that is empty or ends with a blank.
ASSUME WordsAreCounted ==
  \A in \in Texts :
    LET wc == Text!WordCount(in)
        apart(i) == i = 1 \/ in[i - 1] \in {" ", "\n"}
        words == {i \in DOMAIN in : in[i] \in {"x", "X"} /\ apart(i)}
        extra == {i \in Ends(in) : apart(i)}
    IN  /\ wc.nchar = Len(in) /\ wc.nline = Cardinality(Ends(in))
        /\ wc.nword = Cardinality(words) + Cardinality(extra)

\* A byte 255 ends the input of every filter.
ASSUME InputEnds ==
  \A n \in 0..2 : \A in \in [1..n -> Text!Chars], rest \in [1..2 -> Text!Chars] :
    Text!Capitalize(in \o <<"255">> \o rest) = Text!Capitalize(in)

\* The tiles as stacks, and what a move makes of them.
Disks(n) == [k \in 1..n |-> k]
Put(tiles, mv) ==
  [tiles EXCEPT ![mv[1]] = Tail(@), ![mv[2]] = <<Head(tiles[mv[1]])>> \o @]
Moves(n) == Text!hanoi(n, 1, 2, 3)
After(n, k) == FoldLeft(Put, <<Disks(n), << >>, << >> >>, SubSeq(Moves(n), 1, k))

\* A disk is never put on a smaller one, and all end on the second tile.
ASSUME TowersAreMoved ==
  \A n \in 0..5 :
    /\ Len(Moves(n)) = 2 ^ n - 1
    /\ After(n, Len(Moves(n))) = << << >>, Disks(n), << >> >>
    /\ \A k \in DOMAIN Moves(n), t \in 1..3 :
         LET tile == After(n, k)[t]
         IN  \A i \in 1 .. Len(tile) - 1 : tile[i] < tile[i + 1]

\* A message whose parts are taken one by one has been sent in full, unless
\* a call failed before its end.
ASSUME MessagesAreSent ==
  \A len \in 0..3 : \A rcs \in [1..4 -> -1..2] :
    LET sum(k) == FoldLeft(LAMBDA a, b : a + b, 0, SubSeq(rcs, 1, k))
        fits   == \A k \in 1..4 : (\A j \in 1..k : rcs[j] > 0) => sum(k) <= len
    IN  fits => (Text!send_message(len, rcs) = len <=>
                   \E k \in 0..4 : (\A j \in 1..k : rcs[j] > 0) /\ sum(k) = len)

\* A shell processes the lines before the first exit, but for empty ones, as
\* they are if they have not more words than it keeps.
CommandLines == {<< >>, <<"exit">>, <<"cap">>, <<"cap", "junk">>, <<"cap", "junk", "junk">>}

ASSUME LinesAreProcessed ==
  \A n \in 0..4 : \A lines \in [1..n -> CommandLines] :
    LET exits  == SelectInSeq(lines, LAMBDA l : l = <<"exit">>)
        before == IF exits = 0 THEN lines ELSE SubSeq(lines, 1, exits - 1)
        real   == SelectSeq(before, LAMBDA l : l # << >>)
    IN  /\ Text!Shell(lines, 4) = real
        /\ Text!Shell(lines, 3) =
             [i \in DOMAIN real |-> IF Len(real[i]) = 3 THEN SubSeq(real[i], 1, 2) ELSE real[i]]

\* A program is repeated as often as one asks; a negative number wraps.
ASSUME ProgramsAreRepeated ==
  \A times \in -8..7 : Text!Repeat(times, 4) = times % 16

-----------------------------------------------------------------------------
\* While processes come and go, nobody is described twice, nor who is not
\* there when its turn comes, and whoever is there all the time is, but for
\* the last entry of the table.  There are as many lines, but none is printed
\* from a description.
ASSUME ProcessesAreDescribed ==
  \A tables \in [1..4 -> [Info!Pids -> {"FREE", "ALIVE"}]] :
    LET sysinfo   == Info!SystemInfo(tables)
        described == sysinfo.described
        always    == {p \in Info!Pids : \A n \in 1..4 : tables[n][p] # "FREE"}
    IN  /\ \A k \in DOMAIN described :
             /\ tables[k][described[k]] # "FREE"
             /\ k > 1 => described[k - 1] < described[k]
        /\ always \ {LastPid} \subseteq ToSet(described)
        /\ LastPid \notin ToSet(described)
        /\ sysinfo.printed = [k \in DOMAIN described |-> "&info"]

-----------------------------------------------------------------------------
\* Either every fifo is open, and those of a terminal belong together, or
\* none is.
ASSUME TerminalsAreConfigured ==
  \A n \in 0..3 : \A opens \in [1 .. 2 * n -> BOOLEAN] :
    LET vmc == Dev!vm_config_terminals(n, opens)
    IN  IF vmc.rc = -1 THEN vmc.fds = {} /\ (n > 2 \/ \E k \in 1 .. 2 * n : ~ opens[k])
        ELSE \A i \in 0 .. n - 1 :
               vmc.serial_out[i] = <<"con", i>> /\ vmc.serial_in[i] = <<"kbd", i>>

\* Of the cores that get the interrupts of two terminals a call changes one
\* at most, and never to a core or for a terminal that there is not.
ASSUME InterruptsAreRouted ==
  \A ncores \in 1..3, serial \in 0..3, coreid \in 0..3,
     intno \in {"SERIAL_RX_READY", "SERIAL_TX_READY", "ICI"} :
    LET all  == {"SERIAL_RX_READY", "SERIAL_TX_READY"} \X {0, 1}
        zero == [i \in all |-> 0]
        new  == Dev!bios_serial_interrupt_core(zero, ncores, serial, intno, coreid)
    IN  /\ new \in [all -> 0 .. ncores - 1]
        /\ {i \in all : new[i] # 0} =
             IF coreid \in 1 .. ncores - 1 THEN {<<intno, serial>>} \cap all ELSE {}

\* A timer that is cancelled at once has what it was set to left, the clock
\* agrees, and one that was set to some time is not cancelled.
ASSUME TimersKeepTime ==
  \A usec \in {s + u : s \in {0, 1000000, 2000000000}, u \in {0, 1, 999, 1000, 999999}} :
    LET timer == Dev!bios_set_timer([sec |-> 0, nsec |-> 0], usec).timer
    IN  /\ timer.nsec \in 0 .. 999999999
        /\ usec = 0 <=> timer.sec = 0 /\ timer.nsec = 0
        /\ Dev!bios_cancel_timer(timer).rc = usec
        /\ Dev!get_coarse_time(timer) = usec

\* The device table lets through only terminals that there are.
ASSUME TerminalsExist ==
  \A nterm \in 0..2, minor \in 0..3 :
    Dev!device_open(nterm, "DEV_SERIAL", minor) = 0 => Dev!serial_open(nterm, minor)

\* A Write to a terminal returns with at least one byte written, and not
\* before it has all or has found the terminal full; one that is still
\* polling has written none.  The PIC daemon is told once that it is full, if it
\* does not find it ready again meanwhile.
ASSUME OutputIsWritten ==
  \A size \in 0..3 : \A accepts \in [1..5 -> BOOLEAN] :
    LET write == Dev!serial_write(size, accepts)
        count == write.count
        taken == {k \in 1..5 : accepts[k]}
        run(k, c) == k + c <= 6 /\ \A i \in k .. k + c - 1 : accepts[i]
    IN  /\ write.dev.told <= 1
        /\ write.returned => ~ write.dev.ready
        /\ IF taken = {} THEN count = 0
           ELSE LET first == CHOOSE k \in taken : \A l \in taken : k <= l
                IN  /\ size > 0 => count > 0
                    /\ count <= size /\ run(first, count)
                    /\ count < size => ~ run(first, count + 1)

\* A program without a kernel that reads from its terminal with any size and
\* writes what it got loses nothing, up to the end of the line.
ASSUME LinesAreEchoed ==
  \A input \in [1..4 -> {"", "x", "\n"}], size \in 0..4 :
    LET line  == Dev!read_serial(input, size)
        typed == SelectSeq(input, LAMBDA c : c # "")
        eol   == SelectInSeq(typed, LAMBDA c : c = "\n")
        upto  == IF eol = 0 THEN Len(typed) ELSE eol
    IN  /\ line = SubSeq(typed, 1, IF upto < size THEN upto ELSE size)
        /\ \A accepts \in [1..4 -> BOOLEAN] :
             LET out == Dev!write_serial(line, accepts)
                 n   == Cardinality({k \in 1..4 : accepts[k]})
             IN  out = SubSeq(line, 1, IF n < Len(line) THEN n ELSE Len(line))

\* stdin and stdout are what they were when they are restored, also when they
\* were not replaced.
ASSUME StdioIsRestored ==
  LET s == [in  |-> Dev!fidopen(10, "r"), out |-> Dev!fidopen(11, "w"),
            saved_in |-> NoStream, saved_out |-> NoStream]
  IN  /\ Dev!tinyos_restore_stdio(Dev!tinyos_replace_stdio(s)) = s
      /\ Dev!tinyos_restore_stdio(s) = s

\* A Read of the pseudo console returns what the first read that does not
\* fail returns, however many do before it.
ASSUME InterruptedReadsAreRetried ==
  \A rcs \in [1..3 -> 0..2], errs \in [1..3 -> BOOLEAN] :
    Dev!stdio_read(rcs, errs) =
      {rcs[k] : k \in {k \in 1..3 : ~ errs[k] /\ \A j \in 1 .. k - 1 : errs[j]}}

-----------------------------------------------------------------------------
\* Three threads use a barrier again and again, and run in any order.  Calls
\* return only in full groups of n, in the order of arrival: no more have
\* returned than have arrived in such groups, and those that would go on
\* sleeping are as many as the group that is not full has.
ASSUME BarriersOpen ==
  \A n \in 1..3, k \in 0..7 : \A schedule \in [1..k -> 1..3] :
    LET s      == Bar!BarrierSync(schedule, n)
        inside == {t \in 1..3 : s.epoch[t] # -1}
        passed == s.passed[1] + s.passed[2] + s.passed[3]
        full   == n * ((passed + Cardinality(inside)) \div n)
    IN  /\ passed <= full
        /\ s.bar.count = passed + Cardinality(inside) - full
        /\ Cardinality({t \in inside : Bar!MustWait(s.bar, s.epoch[t])}) = s.bar.count

=============================================================================
