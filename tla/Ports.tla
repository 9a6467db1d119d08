------------------------------- MODULE Ports -------------------------------
(***************************************************************************)
(* A run of one of the versions of LULESH by a team of ranks.  Each rank   *)
(* has a host thread, which executes the program of its version (LuleshOmp,*)
(* LuleshAcc, LuleshStdpar, LuleshCuda), a copy of every field on the host *)
(* and one on the device, and operations it has launched that the device   *)
(* has not finished.  A copy is the set of the data it was computed from,  *)
(* so a copy that was not brought up to date shows the generations it      *)
(* still holds.                                                            *)
(***************************************************************************)
EXTENDS Offload, LagrangeCycle, Functions, TLC

\* The runs: [port, offload, team, eager, faults, cycles]; a fault is where a
\* mesh may go bad, <<rank, kind, cycle>>.
CONSTANTS Builds

ASSUME BuildsAssumption ==
  \A b \in Builds : b.team # {} /\ b.team \subseteq Ranks /\ b.cycles \in 1..Cycles

Omp == INSTANCE LuleshOmp
Acc == INSTANCE LuleshAcc
Stdpar == INSTANCE LuleshStdpar
Cuda == INSTANCE LuleshCuda

VARIABLES
  build,   \* the version, whether kernels run on a device, the ranks, whether
           \* MPI takes a message before its receiver is there, and the cycles
  fault,   \* the datum that must stop this run
  pc,      \* pc[r]: the next instruction of the host
  host,    \* host[r][f]: the host's copy of a field
  dev,     \* dev[r][f]: the device's copy; absent when not allocated
  refs,    \* refs[r][f]: the references OpenMP counts
  flight,  \* flight[r]: launched operations, in the order of their launch
  posted,  \* posted[r]: receives <<phase, rank>> nothing has come for
  net,     \* net[<<r, k>>]: messages under way
  inbox,   \* inbox[r]: the message buffers, by <<phase, rank>>
  ballots, \* ballots[r]: what the rank has put into each reduction
  arrived, \* arrived[r]: the barriers the rank has come to
  used,    \* used[r][f]: the data the current generation was computed from
  down     \* the job was aborted

conf == <<team, build, fault>>
memory == <<host, dev>>
messages == <<posted, net, inbox>>
meetings == <<ballots, arrived>>
done == <<gen, used>>
vars == <<conf, pc, memory, refs, flight, messages, meetings, done, down>>

-----------------------------------------------------------------------------
(* The programs.                                                           *)

Backend == [cuda |-> "none", cudaGpuMpi |-> "gpumpi", cudaStaged |-> "staged",
            cudaShmwin |-> "shmwin", cudaNvshmem |-> "nvshmem", cudaDirect |-> "direct"]
Source == [omp |-> Omp!Program,
           acc |-> Acc!Program(TRUE), accSerial |-> Acc!Program(FALSE),
           stdpar |-> Stdpar!Program] @@ [port \in DOMAIN Backend |-> Cuda!Program(Backend[port])]
Unroll(p, n) == p.prologue \o FoldLeft(\o, <<>>, [i \in 1..n |-> p.cycle]) \o p.epilogue
Programs == [port \in DOMAIN Source |-> [n \in 1..Cycles |-> Unroll(Source[port], n)]]
Code == Programs[build.port][build.cycles]

IsCuda == build.port \in DOMAIN Backend
Pinned == IF IsCuda THEN {"dtcourant", "dthydro", "bad_vol", "bad_q"} ELSE {}

Garbage == {<<0, "garbage", 0>>}
Inputs == {"xdd", "fx", "volo", "elemMass", "nodalMass", "symm", "ql", "qq", "delv", "vdov", "arealg"}
NoFault == <<0, "none", 0>>
Nothing == [f \in {} |-> {}]

Init ==
  /\ build \in Builds /\ team = build.team
  /\ fault \in {NoFault} \cup build.faults
  /\ CycleInit
  /\ pc = [r \in team |-> 1]
  /\ host = [r \in team |-> [f \in Fields \cup Inputs |-> {<<r, f, 0>>}]]
  /\ dev = [r \in team |-> Nothing] /\ refs = [r \in team |-> Nothing]
  /\ flight = [r \in team |-> <<>>]
  /\ posted = [r \in team |-> {}] /\ net = [l \in team \X team |-> <<>>]
  /\ inbox = [r \in team |-> Nothing] /\ ballots = [r \in team |-> <<>>] /\ arrived = [r \in team |-> 0]
  /\ used = [r \in team |-> [f \in Fields |-> {}]]
  /\ down = FALSE

-----------------------------------------------------------------------------
(* Memory.                                                                 *)

Read(m, f) == IF f \in DOMAIN m THEN m[f] ELSE Garbage
ReadAll(m, fs) == UNION {Read(m, f) : f \in fs}
Drop(m, fs) == Restrict(m, DOMAIN m \ fs)

\* A device has no memory for a field that is not mapped; the host has for
\* all, and so has a kernel for its own variables.
Assign(r, onHost, s, a) ==
  LET v == ReadAll(s.mem, a.of)
      exists == onHost \/ a.to \in DOMAIN s.mem \/ a.kind \in {"let", "private"}
      put(m, d) == IF exists THEN (a.to :> d) @@ m ELSE m
  IN  IF a.kind = "store"
      THEN [mem |-> put(s.mem, {<<r, a.to, s.gen[a.to] + 1>>}),
            gen |-> [s.gen EXCEPT ![a.to] = @ + 1], used |-> [s.used EXCEPT ![a.to] = v]]
      ELSE [s EXCEPT !.mem = put(s.mem, v)]
Locals(body, onHost) == {a.to : a \in {b \in Range(body) : b.kind = "let" \/ (b.kind = "private" /\ ~onHost)}}
Ran(r, mem, body, onHost) ==
  LET s == FoldLeft(LAMBDA t, a : Assign(r, onHost, t, a), [mem |-> mem, gen |-> gen[r], used |-> used[r]], body)
  IN  [s EXCEPT !.mem = Drop(@, Locals(body, onHost))]

Counts(r, s) == gen' = [gen EXCEPT ![r] = s.gen] /\ used' = [used EXCEPT ![r] = s.used]
CopyOut(r, fs, mem) == [f \in fs \cup DOMAIN host[r] |-> IF f \in fs THEN mem[f] ELSE host[r][f]]
OnHost(r, body) ==
  LET s == Ran(r, host[r], body, TRUE)
  IN  host' = [host EXCEPT ![r] = s.mem] /\ Counts(r, s) /\ UNCHANGED dev

\* A kernel sees the device's copies, the scalars it was given when it was
\* launched, and the pinned variables of the host.
Given(r, args) == [f \in args |-> Read(host[r], f)]
OnDevice(r, given, body) ==
  LET s == Ran(r, given @@ Given(r, Pinned) @@ dev[r], body, FALSE)
  IN  /\ dev' = [dev EXCEPT ![r] = Drop(s.mem, DOMAIN given \cup Pinned)]
      /\ host' = [host EXCEPT ![r] = CopyOut(r, Pinned, s.mem)]
      /\ Counts(r, s)

\* What an update copies, where both copies exist, and what a data clause
\* adds to the device.
Copy(r, side, fs) ==
  IF side = "host"
  THEN host' = [host EXCEPT ![r] = CopyOut(r, fs \cap DOMAIN dev[r], dev[r])] /\ UNCHANGED dev
  ELSE dev' = [dev EXCEPT ![r] = [f \in DOMAIN @ |-> IF f \in fs THEN Read(host[r], f) ELSE @[f]]] /\ UNCHANGED host
Mapped(r, maps, to) == dev[r] @@ [f \in maps |-> IF f \in to THEN Read(host[r], f) ELSE Garbage]

-----------------------------------------------------------------------------
(* Instructions of the host that concern one rank.                         *)

Running(r) == ~down /\ pc[r] <= Len(Code)
Ins(r) == Code[pc[r]]
At(r, op) == Running(r) /\ Ins(r).op = op
Goto(r) == pc' = [pc EXCEPT ![r] = @ + 1] /\ UNCHANGED <<conf, down>>
Alone == UNCHANGED <<messages, meetings>>

Host(r) ==
  /\ At(r, "host") /\ OnHost(r, Ins(r).body)
  /\ Goto(r) /\ Alone /\ UNCHANGED <<refs, flight>>

\* A target region: what it maps and was absent lives as long as the region.
Region(r) ==
  /\ At(r, "target")
  /\ LET i == Ins(r)
         fresh == i.maps \ DOMAIN dev[r]
         s == Ran(r, Mapped(r, i.maps, i.to), i.body, FALSE)
     IN  IF build.offload
         THEN /\ host' = [host EXCEPT ![r] = CopyOut(r, i.from \cap fresh, s.mem)]
              /\ dev' = [dev EXCEPT ![r] = Drop(s.mem, fresh)]
              /\ Counts(r, s)
         ELSE OnHost(r, i.body)
  /\ Goto(r) /\ Alone /\ UNCHANGED <<refs, flight>>

Enter(r) ==
  /\ At(r, "enter")
  /\ LET i == Ins(r)
         count(f) == IF f \in DOMAIN refs[r] THEN refs[r][f] ELSE 0
     IN  IF build.offload
         THEN /\ dev' = [dev EXCEPT ![r] = Mapped(r, i.maps, i.to)]
              /\ refs' = [refs EXCEPT ![r] = [f \in i.maps |-> count(f) + 1] @@ @]
         ELSE UNCHANGED <<dev, refs>>
  /\ Goto(r) /\ Alone /\ UNCHANGED <<host, flight, done>>

\* The last reference copies back; delete drops the field at once.
Exit(r) ==
  /\ At(r, "exit")
  /\ LET i == Ins(r)
         last == {f \in i.from \cap DOMAIN refs[r] : refs[r][f] = 1}
         gone == last \cup i.delete
     IN  IF build.offload
         THEN /\ host' = [host EXCEPT ![r] = CopyOut(r, last, dev[r])]
              /\ dev' = [dev EXCEPT ![r] = Drop(@, gone)]
              /\ refs' = [refs EXCEPT ![r] = [f \in DOMAIN @ \ gone |-> IF f \in i.from THEN @[f] - 1 ELSE @[f]]]
         ELSE UNCHANGED <<host, dev, refs>>
  /\ Goto(r) /\ Alone /\ UNCHANGED <<flight, done>>

\* A kernel or a copy that is put on a queue runs later.
Later(r) == Ins(r).on # Now /\ build.offload
Enqueue(r, o) == flight' = [flight EXCEPT ![r] = Append(@, o)]
Launch(r) ==
  /\ At(r, "kernel") /\ Later(r) /\ Enqueue(r, Ins(r) @@ [given |-> Given(r, Ins(r).args)])
  /\ Goto(r) /\ Alone /\ UNCHANGED <<memory, refs, done>>
UpdateLater(r) ==
  /\ At(r, "update") /\ Later(r) /\ Enqueue(r, Ins(r))
  /\ Goto(r) /\ Alone /\ UNCHANGED <<memory, refs, done>>

KernelNow(r) ==
  /\ At(r, "kernel") /\ ~Later(r)
  /\ IF build.offload THEN OnDevice(r, Given(r, Ins(r).args), Ins(r).body) ELSE OnHost(r, Ins(r).body)
  /\ Goto(r) /\ Alone /\ UNCHANGED <<refs, flight>>
UpdateNow(r) ==
  /\ At(r, "update") /\ ~Later(r)
  /\ IF build.offload THEN Copy(r, Ins(r).side, Ins(r).fields) ELSE UNCHANGED memory
  /\ Goto(r) /\ Alone /\ UNCHANGED <<refs, flight, done>>

WaitFor(r) ==
  /\ At(r, "wait") /\ \A i \in DOMAIN flight[r] : flight[r][i].on \notin Ins(r).queues
  /\ Goto(r) /\ Alone /\ UNCHANGED <<memory, refs, flight, done>>

\* A negative volume shows in the positions and in the relative volumes.
Shows(r, v) ==
  /\ fault # NoFault /\ fault[1] = r
  /\ \E f \in IF fault[2] = "volume" THEN {"x", "v"} ELSE {"q"} : <<r, f, fault[3]>> \in v
Stop(r) ==
  /\ At(r, "stop")
  /\ IF Shows(r, Read(IF Ins(r).side = "host" THEN host[r] ELSE dev[r], Ins(r).flag))
     THEN down' = TRUE /\ UNCHANGED <<conf, pc>>
     ELSE Goto(r)
  /\ Alone /\ UNCHANGED <<memory, refs, flight, done>>

-----------------------------------------------------------------------------
(* Messages.                                                               *)

Towards(r, dirs) == {k \in team : k # r /\ Delta(r, k) \in dirs}

Recv(r) ==
  /\ At(r, "receives")
  /\ posted' = [posted EXCEPT ![r] = @ \cup {<<Ins(r).phase, k>> : k \in Towards(r, Ins(r).dirs)}]
  /\ Goto(r) /\ UNCHANGED <<memory, refs, flight, net, inbox, meetings, done>>

\* A message is for a posted receive, or is written into the receiver's memory.
Sent(r, o) ==
  LET m == [phase |-> o.phase, into |-> o.into, data |-> [f \in o.fields |-> Read(host[r], f)]]
  IN  [l \in DOMAIN net |-> IF l[1] = r /\ l[2] \in Towards(r, o.dirs) THEN Append(net[l], m) ELSE net[l]]
Send(r) ==
  /\ At(r, "sends")
  /\ IF Later(r) THEN Enqueue(r, Ins(r)) /\ UNCHANGED net ELSE net' = Sent(r, Ins(r)) /\ UNCHANGED flight
  /\ Goto(r) /\ UNCHANGED <<memory, refs, posted, inbox, meetings, done>>

\* MPI_Waitall over the sends, and the wait for the puts.
AllSent(r) ==
  /\ At(r, "allsent")
  /\ (Ins(r).taken /\ build.eager) \/ \A k \in team : net[<<r, k>>] = <<>>
  /\ Goto(r) /\ Alone /\ UNCHANGED <<memory, refs, flight, done>>

\* MPI matches the first message of a phase with the receive posted for it; a
\* put lands when it likes.  The messages of all phases share one buffer,
\* differently divided: a new one destroys those of other phases.  What is
\* written into a field adds to it.
OfPhase(m, phase) == Restrict(m, {s \in DOMAIN m : s[1] = phase})
Deliver(r, k) ==
  /\ ~down
  /\ \E i \in DOMAIN net[<<k, r>>] :
       LET m == net[<<k, r>>][i]
           matched == m.into = "receive"
           written == m.into = "fields"
           plus(f) == IF f \in DOMAIN m.data THEN m.data[f] ELSE {}
       IN  /\ matched => <<m.phase, k>> \in posted[r] /\ \A j \in 1..(i - 1) : net[<<k, r>>][j].phase # m.phase
           /\ net' = [net EXCEPT ![<<k, r>>] = RemoveAt(@, i)]
           /\ posted' = IF matched THEN [posted EXCEPT ![r] = @ \ {<<m.phase, k>>}] ELSE posted
           /\ inbox' = IF written THEN inbox
                       ELSE [inbox EXCEPT ![r] = (<<m.phase, k>> :> m.data) @@ OfPhase(@, m.phase)]
           /\ dev' = IF written THEN [dev EXCEPT ![r] = [f \in DOMAIN @ |-> @[f] \cup plus(f)]] ELSE dev
  /\ UNCHANGED <<conf, pc, host, refs, flight, meetings, done, down>>

\* What a rank adds to its fields is what the message buffers hold.
Awaited(r, o) == {<<o.phase, k>> : k \in Towards(r, o.dirs)}
Unpacked(r, mem, o) ==
  LET got(f) == UNION {Read(IF s \in DOMAIN inbox[r] THEN inbox[r][s] ELSE Nothing, f) : s \in Awaited(r, o)}
  IN  [f \in DOMAIN mem |-> IF f \in o.fields THEN mem[f] \cup got(f) ELSE mem[f]]

\* The host waits for the messages; it unpacks them or leaves it to a queue.
Merge(r) ==
  /\ At(r, "merges") /\ Awaited(r, Ins(r)) \cap posted[r] = {}
  /\ IF Later(r)
     THEN Enqueue(r, Ins(r)) /\ UNCHANGED host
     ELSE host' = [host EXCEPT ![r] = Unpacked(r, @, Ins(r))] /\ UNCHANGED flight
  /\ Goto(r) /\ Alone /\ UNCHANGED <<dev, refs, done>>

\* MPI_Barrier.
Arrive(r) ==
  /\ At(r, "arrive") /\ arrived' = [arrived EXCEPT ![r] = @ + 1]
  /\ Goto(r) /\ UNCHANGED <<memory, refs, flight, messages, ballots, done>>
Meet(r) ==
  /\ At(r, "meet") /\ \A k \in team : arrived[k] >= arrived[r]
  /\ Goto(r) /\ Alone /\ UNCHANGED <<memory, refs, flight, done>>

\* MPI_Allreduce.  In the first cycle the time step is given.
First(r) == gen[r]["dt"] = 0
\* Mutant: the first cycle takes part in the reduction.
ContributeAlways(r) ==
  /\ At(r, "reduce")
  /\ ballots' = [ballots EXCEPT ![r] = Append(@, ReadAll(host[r], {"dtcourant", "dthydro"}))]
  /\ Goto(r) /\ UNCHANGED <<memory, refs, flight, messages, arrived, done>>
Contribute(r) ==
  /\ At(r, "reduce")
  /\ ballots' = IF First(r) THEN ballots
                ELSE [ballots EXCEPT ![r] = Append(@, ReadAll(host[r], {"dtcourant", "dthydro"}))]
  /\ Goto(r) /\ UNCHANGED <<memory, refs, flight, messages, arrived, done>>
\* Mutant: the time step is the rank's own, without a reduction.
SetDtOwn(r) ==
  /\ At(r, "dt")
  /\ LET own == ReadAll(host[r], {"dtcourant", "dthydro"})
         s == Ran(r, ("newdt" :> own) @@ host[r], << Let("newdt", {"newdt"}), Store("dt", {"dt", "newdt"}) >>, TRUE)
     IN  host' = [host EXCEPT ![r] = s.mem] /\ Counts(r, s)
  /\ Goto(r) /\ Alone /\ UNCHANGED <<dev, refs, flight>>
SetDt(r) ==
  /\ At(r, "dt")
  /\ LET n == Len(ballots[r])
         all == IF First(r) THEN {} ELSE UNION {ballots[k][n] : k \in team}
         s == Ran(r, ("newdt" :> all) @@ host[r], << Let("newdt", {"newdt"}), Store("dt", {"dt", "newdt"}) >>, TRUE)
     IN  /\ First(r) \/ \A k \in team : Len(ballots[k]) >= n
         /\ host' = [host EXCEPT ![r] = s.mem]
         /\ Counts(r, s)
  /\ Goto(r) /\ Alone /\ UNCHANGED <<dev, refs, flight>>

-----------------------------------------------------------------------------
(* The device.                                                             *)

\* Operations of one queue run in order.  Under CUDA the default stream also
\* waits for every other stream, and every other stream for it.
Ordered(p, q) == p = q \/ (IsCuda /\ "default" \in {p, q})
RunQueued(r) ==
  \E i \in DOMAIN flight[r] :
    LET o == flight[r][i]
    IN  /\ ~down /\ \A j \in 1..(i - 1) : ~Ordered(flight[r][j].on, o.on)
        /\ flight' = [flight EXCEPT ![r] = RemoveAt(@, i)]
        /\ CASE o.op = "kernel" -> OnDevice(r, o.given, o.body)
             [] o.op = "update" -> Copy(r, o.side, o.fields) /\ UNCHANGED done
             [] o.op = "merges" -> dev' = [dev EXCEPT ![r] = Unpacked(r, @, o)] /\ UNCHANGED <<host, done>>
             [] o.op = "sends" -> UNCHANGED <<memory, done>>
        /\ net' = IF o.op = "sends" THEN Sent(r, o) ELSE net
        /\ UNCHANGED <<conf, pc, refs, posted, inbox, meetings, down>>

-----------------------------------------------------------------------------
Finished(r) == pc[r] > Len(Code)
Terminated == (down \/ \A r \in team : Finished(r) /\ flight[r] = <<>>) /\ UNCHANGED vars

HostStep(r) ==
  \/ Host(r) \/ Region(r) \/ Enter(r) \/ Exit(r) \/ Launch(r) \/ UpdateLater(r)
  \/ KernelNow(r) \/ UpdateNow(r) \/ WaitFor(r) \/ Stop(r)
  \/ Recv(r) \/ Send(r) \/ AllSent(r) \/ Merge(r) \/ Arrive(r) \/ Meet(r) \/ Contribute(r) \/ SetDt(r)
Next ==
  \/ \E r \in team : HostStep(r) \/ RunQueued(r)
  \/ \E r, k \in team : Deliver(r, k)
  \/ Terminated

Spec == Init /\ [][Next]_vars

-----------------------------------------------------------------------------
(* Properties.                                                             *)

\* Values of the variables; a reference is counted only for memory that is
\* there, and the first cycle takes no part in a reduction.
TypeOK ==
  /\ build \in Builds /\ team = build.team /\ down \in BOOLEAN
  /\ gen \in [team -> [Fields -> 0..build.cycles]]
  /\ \A r \in team :
       /\ pc[r] \in 1..(Len(Code) + 1)
       /\ DOMAIN refs[r] \subseteq DOMAIN dev[r] /\ \A f \in DOMAIN refs[r] : refs[r][f] \in Nat \ {0}
       /\ \A i \in DOMAIN flight[r] : flight[r][i].on \in Queues
       /\ Len(ballots[r]) < build.cycles

\* Whatever memories, queues and messages a version uses, every generation of
\* every field is computed from the data the algorithm names: its own of the
\* right cycle and those of the right neighbours (LagrangeLeapFrog).
SameDataflow ==
  \A r \in team, f \in Fields : gen[r][f] > 0 => used[r][f] = Recipe(r, f, gen[r][f])

\* A mesh that went bad in a cycle stops the job before the next energies are
\* computed, under CUDA, where the host reads the flags without waiting for
\* the kernels, one or two cycles later.  The OpenACC kernels report nothing.
Reports == ~(build.port \in {"acc", "accSerial"} /\ build.offload)
Delay == IF ~IsCuda THEN 0 ELSE IF fault[2] = "volume" THEN 1 ELSE 2
FaultsStop == fault # NoFault /\ Reports => gen[fault[1]]["e"] <= fault[3] + Delay

\* The energies a run prints at its end are those of its last cycle
\* (VerifyAndWriteFinalOutput; rank 0 prints, here any rank could).
PrintedCurrent == \A r \in team : Finished(r) => host[r]["printed"] = {<<r, "e", build.cycles>>}

\* At the end no message is left that nobody received, and no receive that
\* nobody answered: the walks over the neighbours agree.
AllReceived ==
  (\A r \in team : Finished(r)) => \A r \in team : posted[r] = {} /\ \A k \in team : net[<<r, k>>] = <<>>
============================================================================
