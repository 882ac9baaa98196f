------------------------------- MODULE Devices -------------------------------
(***************************************************************************)
(* The device table with the null device and the polling output of the     *)
(* serial one (kernel_dev.c), the streams of the C library on top of them  *)
(* (tinyoslib.c), and terminals and timers of the machine (bios.c).        *)
(***************************************************************************)
EXTENDS Integers, Sequences, SequencesExt

CONSTANTS MAX_TERMINALS, NULL

-----------------------------------------------------------------------------
(***************************************************************************)
(* vm_config_terminals(): two fifos for each terminal are opened in turn,  *)
(* until the last or until one cannot be opened, when all are closed.      *)
(* opens tells of each fifo whether it can be opened.                      *)
(***************************************************************************)
Fifos(serialno) ==
  [k \in 1 .. 2 * serialno |->
     <<IF k % 2 = 1 THEN "con" ELSE "kbd", (k - 1) \div 2>>]

vm_config_terminals(serialno, opens) ==
  IF serialno > MAX_TERMINALS \/ \E k \in 1 .. 2 * serialno : ~ opens[k]
  THEN [rc |-> -1, fds |-> {}]
  ELSE [rc |-> 0,
        fds |-> ToSet(Fifos(serialno)),
        serial_out |-> [i \in 0 .. serialno - 1 |-> Fifos(serialno)[2 * i + 1]],
        serial_in  |-> [i \in 0 .. serialno - 1 |-> Fifos(serialno)[2 * i + 2]]]

\* A pair <<intno, serial>> is mapped to the core that gets the interrupt.
bios_serial_interrupt_core(int_core, ncores, serial, intno, coreid) ==
  IF <<intno, serial>> \in DOMAIN int_core /\ coreid < ncores
  THEN [int_core EXCEPT ![<<intno, serial>>] = coreid] ELSE int_core

-----------------------------------------------------------------------------
(***************************************************************************)
(* Time is a number of usec, which the host keeps as seconds and nsec.     *)
(***************************************************************************)
get_coarse_time(curtime) == curtime.nsec \div 1000 + curtime.sec * 1000000

\* It returns what was left of the timer.
bios_set_timer(timer, usec) ==
  [timer |-> [sec |-> usec \div 1000000, nsec |-> (usec % 1000000) * 1000],
   rc    |-> 1000000 * timer.sec + timer.nsec \div 1000]

bios_cancel_timer(timer) == bios_set_timer(timer, 0)

-----------------------------------------------------------------------------
(***************************************************************************)
(* The device table.                                                       *)
(***************************************************************************)
devtable(nterm) == [DEV_NULL |-> 1, DEV_SERIAL |-> nterm]

device_open(nterm, major, minor) == IF minor < devtable(nterm)[major] THEN 0 ELSE -1

\* serial_open() asserts this of the terminal.
serial_open(nterm, term) == term < nterm

-----------------------------------------------------------------------------
(***************************************************************************)
(* What Read and Write of a stream do.                                     *)
(***************************************************************************)
nulldev_read(size) == [rc |-> size, buf |-> [i \in 1..size |-> 0]]

nulldev_write(size) == size

\* io_device_write(): when the terminal takes no byte, a ready device is so
\* no longer, until the PIC daemon, which is told to watch it, finds it ready.
io_device_write(dev, takes) ==
  [ready |-> dev.ready /\ takes,
   told  |-> IF dev.ready /\ ~ takes THEN dev.told + 1 ELSE dev.told]

\* serial_write() of size bytes when accepts tells of each attempt whether
\* the terminal takes the byte: it polls, and yields, until the first is
\* taken, and then stops at the first that is not.
serial_write(size, accepts) ==
  LET Step(s, ok) ==
        IF s.returned \/ s.count = size THEN s
        ELSE [dev      |-> io_device_write(s.dev, ok),
              count    |-> IF ok THEN s.count + 1 ELSE s.count,
              returned |-> ~ ok /\ s.count > 0]
  IN  FoldLeft(Step, [dev |-> [ready |-> TRUE, told |-> 0], count |-> 0, returned |-> FALSE],
               accepts)

\* read_serial() of a program without a kernel: it polls until it has a line,
\* or size characters.  input is what the attempts bring, "" for nothing.
read_serial(input, size) ==
  FoldLeft(LAMBDA buf, c : IF Len(buf) = size \/ (buf # << >> /\ Last(buf) = "\n") \/ c = ""
                           THEN buf ELSE Append(buf, c), << >>, input)

\* write_serial() of such a program: it tries each byte until it is taken.
write_serial(buf, accepts) ==
  FoldLeft(LAMBDA out, ok : IF ok /\ Len(out) < Len(buf) THEN Append(out, buf[Len(out) + 1])
                            ELSE out, << >>, accepts)

\* stdio_read() of the pseudo console, when rcs and errs tell what each
\* fread_unlocked() returns and whether it has failed: it tries again.
stdio_read(rcs, errs) ==
  LET good == SelectInSeq(errs, LAMBDA err : ~ err)
  IN  IF good = 0 THEN {} ELSE {rcs[good]}

\* For the C library, which takes 0 for an error.
tinyos_fid_write(ret) == IF ret < 0 THEN 0 ELSE ret

-----------------------------------------------------------------------------
(***************************************************************************)
(* stdin and stdout are replaced by streams on the descriptors 0 and 1,    *)
(* and restored from saved_in and saved_out, but only if these are set.    *)
(***************************************************************************)

\* An unbuffered stream of the C library on a descriptor.
fidopen(fid, mode) == [fid |-> fid, mode |-> mode]

tinyos_replace_stdio(s) ==
  [in |-> fidopen(0, "r"), out |-> fidopen(1, "w"), saved_in |-> s.in, saved_out |-> s.out]

tinyos_restore_stdio(s) ==
  IF s.saved_out = NULL THEN s
  ELSE [in |-> s.saved_in, out |-> s.saved_out, saved_in |-> NULL, saved_out |-> NULL]

=============================================================================
