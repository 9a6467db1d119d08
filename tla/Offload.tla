------------------------------ MODULE Offload ------------------------------
(***************************************************************************)
(* The vocabulary in which the programs of the four LULESH versions are    *)
(* written: what a host thread does, one instruction at a time, to the     *)
(* fields of its rank.  Ports interprets it.                               *)
(*                                                                         *)
(* The three coordinates of a vector field are one field (fx stands for    *)
(* fx, fy and fz), the loop over the regions of the material is one pass,  *)
(* and arithmetic is left out: an assignment says which fields the values  *)
(* it writes are computed from.                                            *)
(***************************************************************************)
EXTENDS Integers, Sequences, SequencesExt

\* Assignments.  Put writes data that is only passed on within a cycle, Let
\* a variable of the kernel; Store writes a new generation of a field that
\* outlives the cycle.  Private writes a variable of the host of which a
\* kernel on a device has a copy of its own.
Put(field, inputs) == [to |-> field, of |-> inputs, kind |-> "put"]
Let(field, inputs) == [to |-> field, of |-> inputs, kind |-> "let"]
Private(field, inputs) == [to |-> field, of |-> inputs, kind |-> "private"]
Store(field, inputs) == [to |-> field, of |-> inputs, kind |-> "store"]

\* Instructions.  A queue is the asynchronous stream an operation is put on;
\* Now is what the host waits for.  The scalars among its arguments a kernel
\* gets by value when it is launched.
Now == "now"
Queues == {"async", "up", "default", "streams[1]", "messages"}

HostCode(body) == << [op |-> "host", body |-> body] >>
Kernel(queue, args, body) == << [op |-> "kernel", on |-> queue, args |-> args, body |-> body] >>
Update(side, fields, queue) ==
  << [op |-> "update", side |-> side, fields |-> fields, on |-> queue] >>
Wait(queues) == << [op |-> "wait", queues |-> queues] >>

\* A region of the device with the data clauses of OpenMP, and the clauses
\* that stand alone.
Target(alloc, to, from, body) ==
  << [op |-> "target", maps |-> alloc \cup to \cup from, to |-> to, from |-> from, body |-> body] >>
EnterData(alloc, to) == << [op |-> "enter", maps |-> alloc \cup to, to |-> to] >>
ExitData(from, delete) == << [op |-> "exit", from |-> from, delete |-> delete] >>

\* Messages go to and come from directions: triples (plane, row, column).
\* They are for a posted receive, or put by the sender, at once or on a queue,
\* into the message buffer or the fields of the receiver.  A sender waits for
\* MPI to have taken its messages, or for its puts to have landed.  What
\* arrived is unpacked by the host or on a queue.
Receives(phase, dirs) == << [op |-> "receives", phase |-> phase, dirs |-> dirs] >>
Message(phase, fields, dirs, into, queue) ==
  << [op |-> "sends", phase |-> phase, fields |-> fields, dirs |-> dirs, into |-> into, on |-> queue] >>
Sends(phase, fields, dirs) == Message(phase, fields, dirs, "receive", Now)
Puts(phase, fields, dirs, queue) == Message(phase, fields, dirs, "buffer", queue)
Scatters(phase, fields, dirs, queue) == Message(phase, fields, dirs, "fields", queue)
Waitall == << [op |-> "allsent", taken |-> TRUE] >>
Landed == << [op |-> "allsent", taken |-> FALSE] >>
Merges(phase, fields, dirs, queue) ==
  << [op |-> "merges", phase |-> phase, fields |-> fields, dirs |-> dirs, on |-> queue] >>

\* A barrier of all ranks, the minimum over the ranks, the choice of the time
\* step, and a test of a flag whose failure ends the job.
Barrier == << [op |-> "arrive"], [op |-> "meet"] >>
Reduce == << [op |-> "reduce"] >>
NewDt == << [op |-> "dt"] >>
StopIf(side, flag) == << [op |-> "stop", side |-> side, flag |-> flag] >>
============================================================================
