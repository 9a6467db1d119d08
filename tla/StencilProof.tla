---------------------------- MODULE StencilProof ----------------------------
(***************************************************************************)
(* Proofs about Stencil, for every number of ranks, every iteration count, *)
(* and every choice of the sides reached by direct copies.                 *)
(***************************************************************************)
EXTENDS StencilInv, TLAPS

USE NAssumption, TotalAssumption DEF RECV_SLOTS

(* Sides. *)

LEMMA Sides ==
  \A r \in Rank, d \in Side :
    /\ Opp(d) \in Side /\ Opp(Opp(d)) = d /\ Opp(d) # d
    /\ HasNbr(r, d) => /\ Nbr(r, d) \in Rank /\ Nbr(r, d) # r
                       /\ HasNbr(Nbr(r, d), Opp(d))
                       /\ Nbr(Nbr(r, d), Opp(d)) = r
BY DEF Rank, Side, Opp, HasNbr, Nbr

LEMMA SlotType ==
  \A i \in Nat : Slot(i) \in 0 .. 1
BY DEF Slot

\* Where an iteration within the loop bound leads.
LEMMA NextTop ==
  ASSUME NEW i \in Nat, i < Total
  PROVE  /\ i + 1 \in 0 .. Total
         /\ TopPc(i + 1) \in HostPc
         /\ TopPc(i + 1) \notin {"drain", "free", "done"} => i + 1 < Total
<1>1. i + 1 = Total \/ i + 1 < Total
  OBVIOUS
<1> QED
  BY <1>1 DEF TopPc, HostPc

(***************************************************************************)
(* Type correctness, in every mode and with any warmup.                    *)
(***************************************************************************)

TypeInv == TypeOK /\ LoopBound /\ SidesInv

LEMMA TypeInit == Init => TypeInv
<1> SUFFICES ASSUME Init PROVE TypeInv
  OBVIOUS
<1>1. TopPc(0) \in {"top", "post"}
  BY DEF TopPc
<1>2. TypeOK
  BY <1>1, Sides DEF Init, TypeOK, HostPc, GpuPc, Stamp, None
<1>3. LoopBound
  BY <1>1 DEF Init, LoopBound
<1>4. SidesInv
  BY DEF Init, SidesInv
<1> QED
  BY <1>2, <1>3, <1>4 DEF TypeInv

LEMMA TypeStep == TypeInv /\ [Next]_vars => TypeInv'
<1> SUFFICES ASSUME TypeInv, [Next]_vars PROVE TypeInv'
  OBVIOUS
<1> USE DEF TypeInv, TypeOK, LoopBound, SidesInv, hostVars, gpuVars, dataVars, msgVars
<1>1. ASSUME NEW r \in Rank, Align(r) PROVE TypeInv'
  BY <1>1 DEF Align, Goto, HostPc
<1>2. ASSUME NEW r \in Rank, LeaveAlign(r) PROVE TypeInv'
  BY <1>2 DEF LeaveAlign, Goto, HostPc
<1>3. ASSUME NEW r \in Rank, Launch(r) PROVE TypeInv'
  BY <1>3 DEF Launch, Goto, HostPc
<1>4. ASSUME NEW r \in Rank, SyncSend(r) PROVE TypeInv'
  BY <1>4 DEF SyncSend, Send, Goto, HostPc
<1>5. ASSUME NEW r \in Rank, WaitAll(r) PROVE TypeInv'
  BY <1>5 DEF WaitAll, Goto, HostPc
<1>6. ASSUME NEW r \in Rank, LaunchUnpack(r) PROVE TypeInv'
  <2>1. iter[r] \in 0 .. Total /\ iter[r] < Total
    BY <1>6 DEF LaunchUnpack
  <2>2. /\ iter[r] + 1 \in 0 .. Total
        /\ TopPc(iter[r] + 1) \in HostPc
        /\ TopPc(iter[r] + 1) \notin {"drain", "free", "done"} => iter[r] + 1 < Total
    <3> HIDE DEF TypeInv
    <3> QED
      BY <2>1, NextTop
  <2> QED
    BY <1>6, <2>2 DEF LaunchUnpack, Goto
<1>7. ASSUME NEW r \in Rank, Finish(r) PROVE TypeInv'
  BY <1>7 DEF Finish, Goto, HostPc
<1>8. ASSUME NEW r \in Rank, FreeWindows(r) PROVE TypeInv'
  BY <1>8 DEF FreeWindows, Goto, HostPc
<1>9. ASSUME NEW r \in Rank, NEW k \in 0 .. 3, HsSkip(r, k) PROVE TypeInv'
  BY <1>9 DEF HsSkip, HsStep, Goto, HostPc
<1>10. ASSUME NEW r \in Rank, NEW k \in 0 .. 3, NEW l \in 0 .. 3, HsMeet(r, k, l)
       PROVE TypeInv'
  <2>1. HsSide(k) \in Side
    BY DEF HsSide, Side
  <2>2. /\ Nbr(r, HsSide(k)) \in Rank /\ Opp(HsSide(k)) \in Side
        /\ Nbr(r, HsSide(k)) # r
    BY <1>10, <2>1, Sides DEF HsMeet
  <2>3. HsStep(k + 1) \in HostPc \ {"drain", "free", "done"}
        /\ HsStep(l + 1) \in HostPc \ {"drain", "free", "done"}
        /\ HsStep(k) \notin {"drain", "free", "done"}
        /\ HsStep(l) \notin {"drain", "free", "done"}
    BY DEF HsStep, HostPc
  <2> HIDE DEF SidesInv
  <2>4. SidesInv'
    BY <1>10, SidesInv DEF HsMeet, SidesInv
  <2>5. sent' \in [Rank -> [Side -> Nat]] /\ rcvd' \in [Rank -> [Side -> Nat]]
    BY <1>10, <2>1, <2>2 DEF HsMeet
  <2>6. pc' \in [Rank -> HostPc] /\ LoopBound'
    BY <1>10, <2>1, <2>2, <2>3 DEF HsMeet
  <2> QED
    BY <1>10, <2>4, <2>5, <2>6 DEF HsMeet
<1>11. ASSUME NEW r \in Rank, Memset(r) PROVE TypeInv'
  BY <1>11 DEF Memset, Retire, GpuPc, Stamp
<1>12. ASSUME NEW r \in Rank, Pack(r) PROVE TypeInv'
  BY <1>12 DEF Pack, Retire, GpuPc, Stamp
<1>13. ASSUME NEW r \in Rank, NEW d \in Side, Put(r, d) PROVE TypeInv'
  <2>1. ipcOk[r][d] => Nbr(r, d) \in Rank /\ Opp(d) \in Side
    BY Sides
  <2>2. Slot(gen[r]) \in 0 .. 1
    BY SlotType
  <2>3. recvSlot' \in [Rank -> [Side -> [0 .. 1 -> Stamp]]]
    BY <1>13, <2>1, <2>2 DEF Put
  <2> QED
    BY <1>13, <2>3 DEF Put, Retire, GpuPc
<1>14. ASSUME NEW r \in Rank, NEW d \in Side, Unpack(r, d) PROVE TypeInv'
  <2>1. Slot(gen[r]) \in 0 .. 1
    BY SlotType
  <2>2. ghost' \in [Rank -> [Side -> Stamp]]
    BY <1>14, <2>1 DEF Unpack
  <2> QED
    BY <1>14, <2>2 DEF Unpack, Retire, GpuPc
<1>15. ASSUME NEW r \in Rank, Kernel(r) PROVE TypeInv'
  <2>1. gen[r] + 1 \in 0 .. Total
    BY <1>15 DEF Kernel, InStream
  <2>2. grid' \in [Rank -> Stamp]
    BY <1>15, <2>1 DEF Kernel, Stamp, None
  <2> QED
    BY <1>15, <2>1, <2>2 DEF Kernel, GpuPc
<1>16. ASSUME NEW r \in Rank, NEW d \in Side, Deliver(r, d) PROVE TypeInv'
  <2>1. Nbr(r, d) \in Rank /\ Opp(d) \in Side
    BY <1>16, Sides DEF Deliver, Expects
  <2>2. Slot(iter[r]) \in 0 .. 1
    BY SlotType
  <2>3. recvSlot' \in [Rank -> [Side -> [0 .. 1 -> Stamp]]]
    BY <1>16, <2>1, <2>2 DEF Deliver
  <2>4. rcvd' \in [Rank -> [Side -> Nat]]
    BY <1>16 DEF Deliver
  <2> QED
    BY <1>16, <2>3, <2>4 DEF Deliver
<1>17. CASE UNCHANGED vars
  BY <1>17 DEF vars
<1> QED
  BY <1>1, <1>2, <1>3, <1>4, <1>5, <1>6, <1>7, <1>8, <1>9, <1>10, <1>11, <1>12, <1>13,
     <1>14, <1>15, <1>16, <1>17 DEF Next, Host, Gpu, Terminated

\* Every variable keeps its type and the iteration stays within the loop, in
\* every mode and for every reachability of the sides.
THEOREM TypeCorrect == Spec => []TypeOK
<1>1. TypeInv => TypeOK
  BY DEF TypeInv
<1> QED
  BY TypeInit, TypeStep, <1>1, PTL DEF Spec

(***************************************************************************)
(* The token handshakes, with the clock started before iteration 0.        *)
(***************************************************************************)

TokenRun == SyncModes \subseteq {"neighbor", "ssend"} /\ Warmup = 0

LEMMA Tokens == TokenRun /\ TypeOK => sync \in {"neighbor", "ssend"}
BY DEF TokenRun, TypeOK

\* With no warmup the clock starts at iteration 0 and never again.
LEMMA TokenTop ==
  ASSUME TokenRun
  PROVE  TopPc(0) = "top" /\ \A i \in Nat : TopPc(i + 1) \in {"post", "drain"}
BY DEF TokenRun, TopPc

LEMMA StreamStep == IInv /\ TokenRun /\ [Next]_vars => StreamInv'
<1> SUFFICES ASSUME TypeOK, StreamInv, TokenRun, [Next]_vars, NEW q \in Rank
             PROVE  StreamAt(q)'
  BY DEF IInv, StreamInv
<1>0. StreamAt(q) /\ pc[q] \in HostPc /\ gpc[q] \in GpuPc
  BY DEF StreamInv, TypeOK
<1>t. /\ iter \in [Rank -> Nat] /\ gen \in [Rank -> Nat]
      /\ pc \in [Rank -> HostPc] /\ gpc \in [Rank -> GpuPc]
  BY DEF TypeOK
<1> USE DEF StreamAt, Late, HsPc, hostVars, gpuVars
<1>1. ASSUME NEW r \in Rank, Align(r) PROVE StreamAt(q)'
  BY <1>0, <1>1, <1>t DEF Align, Goto, Drained, InStream
<1>2. ASSUME NEW r \in Rank, LeaveAlign(r) PROVE StreamAt(q)'
  BY <1>0, <1>2, <1>t DEF LeaveAlign, Goto
<1>3. ASSUME NEW r \in Rank, Launch(r) PROVE StreamAt(q)'
  BY <1>0, <1>3, <1>t DEF Launch, Goto
<1>4. ASSUME NEW r \in Rank, SyncSend(r) PROVE StreamAt(q)'
  BY <1>0, <1>4, <1>t DEF SyncSend, Goto, Drained, InStream
<1>5. ASSUME NEW r \in Rank, WaitAll(r) PROVE StreamAt(q)'
  BY <1>0, <1>5, <1>t DEF WaitAll, Goto
<1>6. ASSUME NEW r \in Rank, LaunchUnpack(r) PROVE StreamAt(q)'
  <2>1. TopPc(iter[r] + 1) \in {"post", "drain"}
    BY <1>t, TokenTop
  <2> QED
    BY <1>0, <1>6, <1>t, <2>1 DEF LaunchUnpack, Goto
<1>7. ASSUME NEW r \in Rank, Finish(r) PROVE StreamAt(q)'
  BY <1>0, <1>7, <1>t DEF Finish, Goto, Drained, InStream
<1>8. ASSUME NEW r \in Rank, FreeWindows(r) PROVE StreamAt(q)'
  BY <1>0, <1>8, <1>t DEF FreeWindows, Goto
<1>9. ASSUME NEW r \in Rank, NEW k \in 0 .. 3, HsSkip(r, k) PROVE StreamAt(q)'
  BY <1>0, <1>9, <1>t DEF HsSkip, Goto, HsStep
<1>10. ASSUME NEW r \in Rank, NEW k \in 0 .. 3, NEW l \in 0 .. 3, HsMeet(r, k, l)
       PROVE StreamAt(q)'
  BY <1>0, <1>10, <1>t DEF HsMeet, HsStep
<1>11. ASSUME NEW r \in Rank, Memset(r) PROVE StreamAt(q)'
  BY <1>0, <1>11, <1>t DEF Memset, Retire
<1>12. ASSUME NEW r \in Rank, Pack(r) PROVE StreamAt(q)'
  BY <1>0, <1>12, <1>t DEF Pack, Retire, InStream
<1>13. ASSUME NEW r \in Rank, NEW d \in Side, Put(r, d) PROVE StreamAt(q)'
  BY <1>0, <1>13, <1>t DEF Put, PutPc, Retire, InStream
<1>14. ASSUME NEW r \in Rank, NEW d \in Side, Unpack(r, d) PROVE StreamAt(q)'
  BY <1>0, <1>14, <1>t DEF Unpack, UnPc, Retire, InStream
<1>15. ASSUME NEW r \in Rank, Kernel(r) PROVE StreamAt(q)'
  BY <1>0, <1>15, <1>t DEF Kernel, InStream
<1>16. ASSUME NEW r \in Rank, NEW d \in Side, Deliver(r, d) PROVE StreamAt(q)'
  BY <1>0, <1>16 DEF Deliver
<1>17. CASE UNCHANGED vars
  BY <1>0, <1>17 DEF vars
<1> QED
  BY <1>1, <1>2, <1>3, <1>4, <1>5, <1>6, <1>7, <1>8, <1>9, <1>10, <1>11, <1>12, <1>13,
     <1>14, <1>15, <1>16, <1>17 DEF Next, Host, Gpu, Terminated

LEMMA AlignStep == IInv /\ TokenRun /\ [Next]_vars => AlignInv'
<1> SUFFICES ASSUME TypeOK, StreamInv, AlignInv, TokenRun, [Next]_vars PROVE AlignInv'
  BY DEF IInv
<1>t. /\ arrived \in [Rank -> Nat] /\ pc \in [Rank -> HostPc] /\ iter \in [Rank -> Nat]
  BY DEF TypeOK
<1> USE DEF AlignInv
<1>1. ASSUME NEW r \in Rank, Align(r) PROVE AlignInv'
  BY <1>1, <1>t DEF Align, Goto
<1>2. ASSUME NEW r \in Rank, LeaveAlign(r) PROVE AlignInv'
  BY <1>2, <1>t DEF LeaveAlign, Goto, BarrierOpen, msgVars
<1>3. ASSUME NEW r \in Rank, Launch(r) PROVE AlignInv'
  BY <1>3, <1>t DEF Launch, Goto, msgVars
<1>4. ASSUME NEW r \in Rank, SyncSend(r) PROVE AlignInv'
  BY <1>4, <1>t DEF SyncSend, Goto
<1>5. ASSUME NEW r \in Rank, WaitAll(r) PROVE AlignInv'
  BY <1>5, <1>t DEF WaitAll, Goto
<1>6. ASSUME NEW r \in Rank, LaunchUnpack(r) PROVE AlignInv'
  <2>1. TopPc(iter[r] + 1) \in {"post", "drain"}
    BY <1>t, TokenTop
  <2> QED
    BY <1>6, <1>t, <2>1 DEF LaunchUnpack, Goto, msgVars
<1>7. ASSUME NEW r \in Rank, Finish(r) PROVE AlignInv'
  BY <1>7, <1>t DEF Finish, Goto
<1>8. ASSUME NEW r \in Rank, FreeWindows(r) PROVE AlignInv'
  BY <1>8, <1>t DEF FreeWindows, Goto, msgVars
<1>9. ASSUME NEW r \in Rank, NEW k \in 0 .. 3, HsSkip(r, k) PROVE AlignInv'
  BY <1>9, <1>t DEF HsSkip, Goto, HsStep, msgVars
<1>10. ASSUME NEW r \in Rank, NEW k \in 0 .. 3, NEW l \in 0 .. 3, HsMeet(r, k, l)
       PROVE AlignInv'
  BY <1>10, <1>t DEF HsMeet, HsStep
<1>11. ASSUME NEW r \in Rank, Memset(r) \/ Pack(r) \/ Kernel(r) PROVE AlignInv'
  BY <1>11 DEF Memset, Pack, Kernel, hostVars, msgVars
<1>12. ASSUME NEW r \in Rank, NEW d \in Side, Put(r, d) \/ Unpack(r, d) PROVE AlignInv'
  BY <1>12 DEF Put, Unpack, hostVars, msgVars
<1>13. ASSUME NEW r \in Rank, NEW d \in Side, Deliver(r, d) PROVE AlignInv'
  BY <1>13 DEF Deliver, hostVars
<1>14. CASE UNCHANGED vars
  BY <1>14 DEF vars, hostVars, msgVars
<1> QED
  BY <1>1, <1>2, <1>3, <1>4, <1>5, <1>6, <1>7, <1>8, <1>9, <1>10, <1>11, <1>12, <1>13,
     <1>14 DEF Next, Host, Gpu, Terminated

\* The positions of the Ssend handshake in order, and what each step does.
LEMMA HsOrder ==
  \A k \in 0 .. 3, m \in 0 .. 3 :
    /\ HsStep(k) \in HsPc /\ HsStep(k + 1) \in HsPc \cup {"unpack"}
    /\ HsStep(k) \in HsPast(m) <=> k > m
    /\ HsStep(k + 1) \in HsPast(m) <=> k >= m
BY DEF HsStep, HsPast, HsPc

LEMMA HsMoves ==
  \A r \in Rank, d \in Side, k \in 0 .. 3 :
    /\ HsSide(k) \in Side
    /\ HsSendStep(r, d) \in 0 .. 3 /\ HsRecvStep(r, d) \in 0 .. 3
    /\ k = HsSendStep(r, d) <=> HsSide(k) = d /\ HsSends(r, k)
    /\ k = HsRecvStep(r, d) <=> HsSide(k) = d /\ ~HsSends(r, k)
BY DEF HsSide, HsSends, HsSendStep, HsRecvStep, Side, Rank

\* The counters of one side, which every step is checked against.
CountAt(r, d) ==
  /\ sent[r][d] = iter[r] + (IF pc[r] \in SentPc(r, d) THEN 1 ELSE 0)
  /\ rcvd[r][d] \in {iter[r], iter[r] + 1}
  /\ pc[r] \in RcvdPc(r, d) => rcvd[r][d] = iter[r] + 1
  /\ pc[r] \notin MayHaveRcvd(r, d) => rcvd[r][d] = iter[r]

LEMMA CountStep == IInv /\ TokenRun /\ [Next]_vars => CountInv'
<1> SUFFICES ASSUME TypeOK, SidesInv, StreamInv, CountInv, TokenRun, [Next]_vars,
                    NEW q \in Rank, NEW e \in Side, HasNbr(q, e)
             PROVE  CountAt(q, e)'
  BY DEF IInv, CountInv, CountAt
<1>0. CountAt(q, e)
  BY DEF CountInv, CountAt
<1>t. /\ sync \in {"neighbor", "ssend"}
      /\ pc \in [Rank -> HostPc] /\ iter \in [Rank -> Nat]
      /\ sent \in [Rank -> [Side -> Nat]] /\ rcvd \in [Rank -> [Side -> Nat]]
      /\ ipcOk \in [Rank -> [Side -> BOOLEAN]]
  BY Tokens DEF TypeOK
<1>e. /\ HsRecvStep(q, e) \in 0 .. 3 /\ HsSendStep(q, e) \in 0 .. 3
  BY DEF HsRecvStep, HsSendStep, Rank
<1>a. ~Expects(q, e) => ipcOk[q][e] /\ sync = "ssend"
  BY <1>t DEF Expects
<1>s. UNCHANGED <<sync, ipcOk>> => Expects(q, e)' = Expects(q, e)
  BY DEF Expects
<1> USE DEF CountAt, SentPc, RcvdPc, MayHaveRcvd, Late, HsPc, HsPast
<1>1. ASSUME NEW r \in Rank, Align(r) PROVE CountAt(q, e)'
  BY <1>0, <1>t, <1>e, <1>s, <1>1 DEF Align, Goto
<1>2. ASSUME NEW r \in Rank, LeaveAlign(r) PROVE CountAt(q, e)'
  BY <1>0, <1>t, <1>e, <1>s, <1>2 DEF LeaveAlign, Goto, msgVars
<1>3. ASSUME NEW r \in Rank, Launch(r) PROVE CountAt(q, e)'
  BY <1>0, <1>t, <1>e, <1>s, <1>3 DEF Launch, Goto, msgVars
<1>4. ASSUME NEW r \in Rank, SyncSend(r) PROVE CountAt(q, e)'
  <2>1. CASE q # r
    BY <1>0, <1>t, <1>e, <1>s, <1>4, <2>1 DEF SyncSend, Send, Goto
  <2>2. CASE q = r /\ Expects(q, e)
    <3>1. sent'[q][e] = sent[q][e] + 1 /\ pc'[q] = "wait" /\ pc[q] = "sync"
      BY <1>t, <1>4, <2>2 DEF SyncSend, Send, Goto
    <3> QED
      BY <1>0, <1>s, <1>t, <1>4, <2>2, <3>1 DEF SyncSend
  <2>3. CASE q = r /\ ~Expects(q, e)
    <3>1. sent'[q][e] = sent[q][e] /\ pc'[q] = "wait" /\ pc[q] = "sync"
      BY <1>t, <1>4, <2>3 DEF SyncSend, Send, Goto
    <3> QED
      BY <1>0, <1>s, <1>t, <1>4, <2>3, <3>1 DEF SyncSend
  <2> QED
    BY <2>1, <2>2, <2>3
<1>5. ASSUME NEW r \in Rank, WaitAll(r) PROVE CountAt(q, e)'
  BY <1>0, <1>t, <1>e, <1>s, <1>a, <1>5 DEF WaitAll, Goto, Complete
<1>6. ASSUME NEW r \in Rank, LaunchUnpack(r) PROVE CountAt(q, e)'
  <2>1. TopPc(iter[r] + 1) \in {"post", "drain"}
    BY <1>t, TokenTop
  <2>2. CASE q # r
    BY <1>0, <1>s, <1>t, <1>6, <2>2 DEF LaunchUnpack, Goto, msgVars
  <2>3. CASE q = r
    <3>1. sent[q][e] = iter[q] + 1 /\ rcvd[q][e] = iter[q] + 1
      BY <1>0, <1>t, <1>6, <2>3 DEF LaunchUnpack
    <3>2. /\ iter'[q] = iter[q] + 1 /\ pc'[q] \in {"post", "drain"}
          /\ UNCHANGED <<sent, rcvd, sync, ipcOk>>
      BY <1>t, <1>6, <2>1, <2>3 DEF LaunchUnpack, Goto, msgVars
    <3>3. pc'[q] \notin SentPc(q, e)' /\ pc'[q] \notin MayHaveRcvd(q, e)'
      BY <3>2
    <3> HIDE DEF SentPc, MayHaveRcvd, RcvdPc
    <3>4. pc'[q] \notin RcvdPc(q, e)'
      BY <3>3 DEF MayHaveRcvd
    <3> QED
      BY <1>t, <3>1, <3>2, <3>3, <3>4
  <2> QED
    BY <2>2, <2>3
<1>7. ASSUME NEW r \in Rank, Finish(r) PROVE CountAt(q, e)'
  BY <1>0, <1>t, <1>e, <1>s, <1>7 DEF Finish, Goto
<1>8. ASSUME NEW r \in Rank, FreeWindows(r) PROVE CountAt(q, e)'
  BY <1>0, <1>t, <1>e, <1>s, <1>8 DEF FreeWindows, Goto, msgVars
<1>9. ASSUME NEW r \in Rank, NEW k \in 0 .. 3, HsSkip(r, k) PROVE CountAt(q, e)'
  <2> HIDE DEF HsPast
  <2>1. CASE q # r
    BY <1>0, <1>t, <1>s, <1>9, <2>1 DEF HsSkip, Goto, msgVars
  <2>2. CASE q = r
    <3>1. /\ pc[q] = HsStep(k) /\ pc'[q] = HsStep(k + 1)
          /\ UNCHANGED <<sent, rcvd, iter, sync, ipcOk>> /\ ~ipcOk[q][HsSide(k)]
      BY <1>t, <1>9, <2>2 DEF HsSkip, Goto, msgVars
    <3>2. CASE Expects(q, e)
      BY <1>0, <1>s, <3>1, <3>2, HsOrder
    <3>3. CASE ~Expects(q, e)
      <4>1. k # HsSendStep(q, e) /\ k # HsRecvStep(q, e)
        BY <1>a, <3>1, <3>3, HsMoves
      <4> QED
        BY <1>0, <1>e, <1>s, <3>1, <3>3, <4>1, HsOrder
    <3> QED
      BY <3>2, <3>3
  <2> QED
    BY <2>1, <2>2
<1>10. ASSUME NEW r \in Rank, NEW k \in 0 .. 3, NEW l \in 0 .. 3, HsMeet(r, k, l)
       PROVE CountAt(q, e)'
  <2> HIDE DEF HsPast
  <2> DEFINE d == HsSide(k)  n == Nbr(r, d)
  <2>1. /\ d \in Side /\ Opp(d) \in Side /\ n \in Rank /\ n # r
        /\ ipcOk[r][d] /\ ipcOk[n][Opp(d)]
    BY <1>10, HsMoves, Sides DEF HsMeet, SidesInv
  <2>2. /\ pc[r] = HsStep(k) /\ pc'[r] = HsStep(k + 1) /\ HsSends(r, k)
        /\ pc[n] = HsStep(l) /\ pc'[n] = HsStep(l + 1) /\ ~HsSends(n, l)
        /\ HsSide(l) = Opp(d)
        /\ \A x \in Rank : x # r /\ x # n => pc'[x] = pc[x]
    BY <1>10, <1>t, <2>1 DEF HsMeet
  <2>3. /\ sent'[r][d] = sent[r][d] + 1
        /\ rcvd'[n][Opp(d)] = rcvd[n][Opp(d)] + 1
        /\ \A x \in Rank, y \in Side : x # r \/ y # d => sent'[x][y] = sent[x][y]
        /\ \A x \in Rank, y \in Side : x # n \/ y # Opp(d) => rcvd'[x][y] = rcvd[x][y]
        /\ UNCHANGED <<iter, sync, ipcOk>>
    BY <1>10, <1>t, <2>1 DEF HsMeet
  <2>4. sync = "ssend"
    <3>1. StreamAt(r)
      BY DEF StreamInv
    <3> QED
      BY <2>2, <3>1, HsOrder DEF StreamAt
  <2>5. CASE q # r /\ q # n
    BY <1>0, <1>s, <2>2, <2>3, <2>5
  <2>6. CASE q = r
    <3>1. ~Expects(q, e) => ipcOk[q][e] /\ (k = HsSendStep(q, e) <=> e = d)
                             /\ k # HsRecvStep(q, e)
      BY <1>a, <2>2, <2>6, HsMoves
    <3>2. ~(e = d /\ Expects(q, e))
      BY <2>1, <2>4, <2>6 DEF Expects
    <3>3. CASE Expects(q, e)
      BY <1>0, <1>s, <2>1, <2>2, <2>3, <2>6, <3>2, <3>3, HsOrder
    <3>4. CASE ~Expects(q, e)
      BY <1>0, <1>t, <1>e, <1>s, <2>1, <2>2, <2>3, <2>6, <3>1, <3>4, HsOrder
    <3> QED
      BY <3>3, <3>4
  <2>7. CASE q = n
    <3>1. ~Expects(q, e) => ipcOk[q][e] /\ (l = HsRecvStep(q, e) <=> e = Opp(d))
                             /\ l # HsSendStep(q, e)
      BY <1>a, <2>2, <2>7, HsMoves
    <3>2. ~(e = Opp(d) /\ Expects(q, e))
      BY <2>1, <2>4, <2>7 DEF Expects
    <3>3. CASE Expects(q, e)
      BY <1>0, <1>s, <2>1, <2>2, <2>3, <2>7, <3>2, <3>3, HsOrder
    <3>4. CASE ~Expects(q, e)
      BY <1>0, <1>t, <1>e, <1>s, <2>1, <2>2, <2>3, <2>7, <3>1, <3>4, HsOrder
    <3> QED
      BY <3>3, <3>4
  <2> QED
    BY <2>5, <2>6, <2>7
<1>11. ASSUME NEW r \in Rank, Memset(r) \/ Pack(r) \/ Kernel(r) PROVE CountAt(q, e)'
  BY <1>0, <1>s, <1>11 DEF Memset, Pack, Kernel, hostVars, msgVars
<1>12. ASSUME NEW r \in Rank, NEW d \in Side, Put(r, d) \/ Unpack(r, d) PROVE CountAt(q, e)'
  BY <1>0, <1>s, <1>12 DEF Put, Unpack, hostVars, msgVars
<1>13. ASSUME NEW r \in Rank, NEW d \in Side, Deliver(r, d) PROVE CountAt(q, e)'
  BY <1>0, <1>t, <1>e, <1>s, <1>13 DEF Deliver, hostVars
<1>14. CASE UNCHANGED vars
  BY <1>0, <1>s, <1>14 DEF vars, hostVars, msgVars
<1> QED
  BY <1>1, <1>2, <1>3, <1>4, <1>5, <1>6, <1>7, <1>8, <1>9, <1>10, <1>11, <1>12, <1>13,
     <1>14 DEF Next, Host, Gpu, Terminated

PairAt(r, d) ==
  /\ rcvd[Nbr(r, d)][Opp(d)] <= sent[r][d]
  /\ ~ipcOk[r][d] => sent[r][d] <= rcvd[Nbr(r, d)][Opp(d)] + 1
  /\ ~ipcOk[r][d] /\ pc[r] # "wait" => sent[r][d] = rcvd[Nbr(r, d)][Opp(d)]

LEMMA PairStep == IInv /\ TokenRun /\ [Next]_vars => PairInv'
<1> SUFFICES ASSUME TypeOK, SidesInv, PairInv, TokenRun, [Next]_vars,
                    NEW q \in Rank, NEW e \in Side, HasNbr(q, e)
             PROVE  PairAt(q, e)'
  BY DEF IInv, PairInv, PairAt
<1> DEFINE m == Nbr(q, e)  f == Opp(e)
<1>0. PairAt(q, e)
  BY DEF PairInv, PairAt
<1>m. m \in Rank /\ m # q /\ f \in Side /\ Nbr(m, f) = q /\ Opp(f) = e
  BY Sides
<1>t. /\ pc \in [Rank -> HostPc] /\ iter \in [Rank -> Nat]
      /\ sent \in [Rank -> [Side -> Nat]] /\ rcvd \in [Rank -> [Side -> Nat]]
      /\ sent[q][e] \in Nat /\ rcvd[m][f] \in Nat
  BY <1>m DEF TypeOK
<1> HIDE DEF m, f
<1>k. /\ rcvd[m][f] <= sent[q][e]
      /\ ~ipcOk[q][e] => sent[q][e] <= rcvd[m][f] + 1
      /\ ~ipcOk[q][e] /\ pc[q] # "wait" => sent[q][e] = rcvd[m][f]
  BY <1>0 DEF PairAt, m, f
\* The goal, in terms of the values the step leaves.
<1>g. ASSUME rcvd'[m][f] <= sent'[q][e],
             ~ipcOk'[q][e] => sent'[q][e] <= rcvd'[m][f] + 1,
             ~ipcOk'[q][e] /\ pc'[q] # "wait" => sent'[q][e] = rcvd'[m][f]
      PROVE  PairAt(q, e)'
  BY <1>g DEF PairAt, m, f
<1>1. ASSUME NEW r \in Rank, Align(r) PROVE PairAt(q, e)'
  BY <1>k, <1>t, <1>g, <1>1 DEF Align, Goto
<1>2. ASSUME NEW r \in Rank, LeaveAlign(r) PROVE PairAt(q, e)'
  BY <1>k, <1>t, <1>g, <1>2 DEF LeaveAlign, Goto, msgVars
<1>3. ASSUME NEW r \in Rank, Launch(r) PROVE PairAt(q, e)'
  BY <1>k, <1>t, <1>g, <1>3 DEF Launch, Goto, msgVars
<1>4. ASSUME NEW r \in Rank, SyncSend(r) PROVE PairAt(q, e)'
  <2>1. UNCHANGED <<rcvd, ipcOk>>
    BY <1>4 DEF SyncSend
  <2>2. CASE q # r
    BY <1>k, <1>t, <1>g, <1>4, <2>1, <2>2 DEF SyncSend, Send, Goto
  <2>3. CASE q = r
    <3>1. sent'[q][e] \in {sent[q][e], sent[q][e] + 1} /\ pc[q] = "sync" /\ pc'[q] = "wait"
      BY <1>t, <1>4, <2>3 DEF SyncSend, Send, Goto
    <3> QED
      BY <1>k, <1>t, <1>g, <2>1, <3>1
  <2> QED
    BY <2>2, <2>3
<1>5. ASSUME NEW r \in Rank, WaitAll(r) PROVE PairAt(q, e)'
  <2>1. q = r /\ ~ipcOk[q][e] => sent[q][e] = rcvd[m][f]
    BY <1>5 DEF WaitAll, Complete, Expects, m, f
  <2> QED
    BY <1>k, <1>t, <1>g, <1>5, <2>1 DEF WaitAll, Goto
<1>6. ASSUME NEW r \in Rank, LaunchUnpack(r) PROVE PairAt(q, e)'
  BY <1>k, <1>t, <1>g, <1>6 DEF LaunchUnpack, Goto, msgVars
<1>7. ASSUME NEW r \in Rank, Finish(r) PROVE PairAt(q, e)'
  BY <1>k, <1>t, <1>g, <1>7 DEF Finish, Goto
<1>8. ASSUME NEW r \in Rank, FreeWindows(r) PROVE PairAt(q, e)'
  BY <1>k, <1>t, <1>g, <1>8 DEF FreeWindows, Goto, msgVars
<1>9. ASSUME NEW r \in Rank, NEW k \in 0 .. 3, HsSkip(r, k) PROVE PairAt(q, e)'
  BY <1>k, <1>t, <1>g, <1>9 DEF HsSkip, Goto, HsStep, msgVars
<1>10. ASSUME NEW r \in Rank, NEW k \in 0 .. 3, NEW l \in 0 .. 3, HsMeet(r, k, l)
       PROVE PairAt(q, e)'
  <2> DEFINE d == HsSide(k)  n == Nbr(r, d)
  <2>1. /\ d \in Side /\ Opp(d) \in Side /\ n \in Rank /\ n # r /\ ipcOk[r][d]
        /\ Nbr(n, Opp(d)) = r /\ Opp(Opp(d)) = d
    BY <1>10, HsMoves, Sides DEF HsMeet, SidesInv
  <2>2. /\ sent' = [sent EXCEPT ![r][d] = @ + 1]
        /\ rcvd' = [rcvd EXCEPT ![n][Opp(d)] = @ + 1]
        /\ UNCHANGED ipcOk
    BY <1>10 DEF HsMeet
  <2>3. pc[q] # "wait" <=> pc'[q] # "wait"
    BY <1>10, <1>t, <2>1 DEF HsMeet, HsStep
  <2>4. CASE q = r /\ e = d
    <3>1. m = n /\ f = Opp(d)
      BY <2>4 DEF m, f
    <3>2. sent'[q][e] = sent[q][e] + 1 /\ rcvd'[m][f] = rcvd[m][f] + 1
      BY <1>t, <2>1, <2>2, <2>4, <3>1
    <3> QED
      BY <1>k, <1>t, <1>g, <2>1, <2>2, <2>4, <3>2
  <2>5. CASE q # r \/ e # d
    <3>1. m # n \/ f # Opp(d)
      BY <1>m, <2>1, <2>5
    <3>2. sent'[q][e] = sent[q][e] /\ rcvd'[m][f] = rcvd[m][f]
      BY <1>m, <1>t, <2>1, <2>2, <2>5, <3>1
    <3> QED
      BY <1>k, <1>g, <2>2, <2>3, <3>2
  <2> QED
    BY <2>4, <2>5
<1>11. ASSUME NEW r \in Rank, Memset(r) \/ Pack(r) \/ Kernel(r) PROVE PairAt(q, e)'
  BY <1>k, <1>g, <1>11 DEF Memset, Pack, Kernel, hostVars, msgVars
<1>12. ASSUME NEW r \in Rank, NEW d \in Side, Put(r, d) \/ Unpack(r, d) PROVE PairAt(q, e)'
  BY <1>k, <1>g, <1>12 DEF Put, Unpack, hostVars, msgVars
<1>13. ASSUME NEW r \in Rank, NEW d \in Side, Deliver(r, d) PROVE PairAt(q, e)'
  <2>1. /\ rcvd' = [rcvd EXCEPT ![r][d] = @ + 1]
        /\ UNCHANGED <<sent, ipcOk, pc>>
        /\ sent[Nbr(r, d)][Opp(d)] > rcvd[r][d]
    BY <1>13 DEF Deliver, hostVars
  <2>2. CASE m = r /\ f = d
    <3>1. sent[q][e] > rcvd[m][f] /\ rcvd'[m][f] = rcvd[m][f] + 1
      BY <1>m, <1>t, <2>1, <2>2
    <3> QED
      BY <1>k, <1>t, <1>g, <2>1, <3>1
  <2>3. CASE m # r \/ f # d
    <3>1. rcvd'[m][f] = rcvd[m][f]
      BY <1>m, <1>t, <2>1, <2>3
    <3> QED
      BY <1>k, <1>g, <2>1, <3>1
  <2> QED
    BY <2>2, <2>3
<1>14. CASE UNCHANGED vars
  BY <1>k, <1>g, <1>14 DEF vars, hostVars, msgVars
<1> QED
  BY <1>1, <1>2, <1>3, <1>4, <1>5, <1>6, <1>7, <1>8, <1>9, <1>10, <1>11, <1>12, <1>13,
     <1>14 DEF Next, Host, Gpu, Terminated

(***************************************************************************)
(* Two slots hold the last two columns of a side.                          *)
(***************************************************************************)

LEMMA Parity ==
  \A i \in Nat : i % 2 \in 0 .. 1 /\ (i + 1) % 2 # i % 2 /\ (i + 2) % 2 = i % 2
OBVIOUS

LastTwo(slots, w) ==
  /\ w >= 1 => slots[(w - 1) % 2] = w - 1
  /\ w >= 2 => slots[w % 2] = w - 2

\* Writing column w into its slot leaves column w - 1 in the other one.
LEMMA LastTwoWrite ==
  ASSUME NEW s \in [0 .. 1 -> Stamp], NEW w \in Nat, LastTwo(s, w)
  PROVE  LastTwo([s EXCEPT ![w % 2] = w], w + 1)
<1> DEFINE t == [s EXCEPT ![w % 2] = w]
<1>1. w % 2 \in 0 .. 1 /\ (w + 1) % 2 \in 0 .. 1 /\ (w + 1) % 2 # w % 2
  BY Parity
<1>2. t[((w + 1) - 1) % 2] = (w + 1) - 1
  <2>1. (w + 1) - 1 = w
    OBVIOUS
  <2> QED
    BY <1>1, <2>1
<1>3. w + 1 >= 2 => t[(w + 1) % 2] = (w + 1) - 2
  <2> SUFFICES ASSUME w >= 1 PROVE t[(w + 1) % 2] = w - 1
    OBVIOUS
  <2>1. s[(w - 1) % 2] = w - 1
    BY DEF LastTwo
  <2>2. (w + 1) % 2 = (w - 1) % 2
    <3>1. w - 1 \in Nat /\ (w - 1) + 2 = w + 1
      OBVIOUS
    <3> QED
      BY <3>1, Parity
  <2> QED
    BY <1>1, <2>1, <2>2
<1> QED
  BY <1>2, <1>3 DEF LastTwo

\* Either of the last two columns written is found in its slot.
LEMMA LastTwoRead ==
  ASSUME NEW s, NEW i \in Nat, NEW w \in {i + 1, i + 2}, LastTwo(s, w)
  PROVE  s[i % 2] = i
<1>1. CASE w = i + 1
  BY <1>1 DEF LastTwo
<1>2. CASE w = i + 2
  <2>1. s[(i + 2) % 2] = i
    BY <1>2 DEF LastTwo
  <2> QED
    BY <2>1, Parity
<1> QED
  BY <1>1, <1>2

LEMMA TokenSlot ==
  ASSUME TokenRun, TypeOK, NEW i \in Nat
  PROVE  Slot(i) = i % 2
BY Tokens DEF Slot

(***************************************************************************)
(* The argument of stencil_ipc.cu:523-536: between the launch of an unpack *)
(* and its run, the neighbour has written this iteration's column and not  *)
(* the one that returns to its slot.                                       *)
(***************************************************************************)

Core == TypeOK /\ StreamInv /\ SidesInv /\ CountInv /\ PairInv

\* No message of a side is sent before the column it announces is written.
LEMMA PutsSent ==
  ASSUME Core, NEW r \in Rank, NEW d \in Side, HasNbr(r, d)
  PROVE  /\ PutsDone(r, d) >= sent[r][d] /\ PutsDone(r, d) \in {gen[r], gen[r] + 1}
         /\ gen[r] <= iter[r] /\ iter[r] <= rcvd[r][d]
<1>1. StreamAt(r) /\ iter[r] \in Nat /\ gen[r] \in Nat /\ rcvd[r][d] \in Nat
  BY DEF Core, StreamInv, TypeOK
<1>2. /\ sent[r][d] = iter[r] + (IF pc[r] \in SentPc(r, d) THEN 1 ELSE 0)
      /\ rcvd[r][d] \in {iter[r], iter[r] + 1}
  BY DEF Core, CountInv
<1>3. SentPc(r, d) \subseteq Late
  BY DEF SentPc, Late, HsPc, HsPast
<1> QED
  BY <1>1, <1>2, <1>3 DEF StreamAt, PutsDone, Late, HsPc

LEMMA Window ==
  ASSUME Core, NEW r \in Rank, NEW d \in Side, HasNbr(r, d), gen[r] < iter[r]
  PROVE  /\ Written(r, d) \in {gen[r] + 1, gen[r] + 2}
         /\ gen[Nbr(r, d)] \in {gen[r], gen[r] + 1}
<1> DEFINE n == Nbr(r, d)  f == Opp(d)
<1>1. n \in Rank /\ f \in Side /\ HasNbr(n, f) /\ Nbr(n, f) = r /\ Opp(f) = d
  BY Sides
<1>2. /\ PutsDone(n, f) >= sent[n][f] /\ PutsDone(n, f) \in {gen[n], gen[n] + 1}
      /\ gen[n] <= iter[n] /\ iter[n] <= rcvd[n][f]
  BY <1>1, PutsSent
<1>3. rcvd[r][d] <= sent[n][f] /\ rcvd[n][f] <= sent[r][d]
  BY <1>1 DEF Core, PairInv
<1>4. iter[r] = gen[r] + 1 /\ pc[r] \notin Late
  <2>1. StreamAt(r) /\ iter[r] \in Nat /\ gen[r] \in Nat
    BY DEF Core, StreamInv, TypeOK
  <2> QED
    BY <2>1 DEF StreamAt, Late, HsPc
<1>5. sent[r][d] = iter[r] /\ rcvd[r][d] \in {iter[r], iter[r] + 1}
  <2>1. SentPc(r, d) \subseteq Late
    BY DEF SentPc, Late, HsPc, HsPast
  <2>2. iter[r] \in Nat
    BY DEF Core, TypeOK
  <2> QED
    BY <1>4, <2>1, <2>2 DEF Core, CountInv
<1>6. /\ gen[r] \in Nat /\ gen[n] \in Nat /\ iter[r] \in Nat /\ iter[n] \in Nat
      /\ sent[n][f] \in Nat /\ sent[r][d] \in Nat /\ rcvd[n][f] \in Nat /\ rcvd[r][d] \in Nat
  BY <1>1 DEF Core, TypeOK
<1> HIDE DEF n, f
<1>7. /\ PutsDone(n, f) \in {gen[r] + 1, gen[r] + 2}
      /\ gen[n] \in {gen[r], gen[r] + 1}
      /\ rcvd[r][d] \in {gen[r] + 1, gen[r] + 2}
  BY <1>2, <1>3, <1>4, <1>5, <1>6
<1> QED
  BY <1>7 DEF Written, n, f

\* What a launched unpack will read.
LEMMA FreshSlot ==
  ASSUME Core, SlotInv, TokenRun, NEW r \in Rank, NEW d \in Side, HasNbr(r, d),
         gen[r] < iter[r]
  PROVE  recvSlot[r][d][Slot(gen[r])] = gen[r]
<1>1. Written(r, d) \in {gen[r] + 1, gen[r] + 2}
  BY Window
<1>2. LastTwo(recvSlot[r][d], Written(r, d))
  BY DEF SlotInv, LastTwo
<1>3. gen[r] \in Nat
  BY DEF Core, TypeOK
<1>4. Slot(gen[r]) = gen[r] % 2
  BY <1>3, TokenSlot DEF Core
<1> QED
  BY <1>1, <1>2, <1>3, <1>4, LastTwoRead

(***************************************************************************)
(* Every step keeps the data invariants.                                   *)
(***************************************************************************)

\* Host steps leave the GPU and the data alone.
LEMMA HostFrame ==
  ASSUME NEW r \in Rank, Host(r)
  PROVE  UNCHANGED <<gpuVars, dataVars, sync, ipcOk>>
BY DEF Host, Align, LeaveAlign, Launch, SyncSend, WaitAll, LaunchUnpack, Finish, FreeWindows,
       HsSkip, HsMeet

LEMMA SendBufStep == IInv /\ TokenRun /\ [Next]_vars => SendBufInv'
<1> SUFFICES ASSUME TypeOK, SendBufInv, [Next]_vars PROVE SendBufInv'
  BY DEF IInv
<1>t. /\ gen \in [Rank -> Nat] /\ gpc \in [Rank -> GpuPc]
      /\ sendBuf \in [Rank -> [Side -> Stamp]]
  BY DEF TypeOK
<1> USE DEF SendBufInv
<1>1. ASSUME NEW r \in Rank, Host(r) PROVE SendBufInv'
  BY <1>1, HostFrame DEF gpuVars, dataVars
<1>2. ASSUME NEW r \in Rank, Memset(r) PROVE SendBufInv'
  BY <1>2, <1>t DEF Memset, Retire
<1>3. ASSUME NEW r \in Rank, Pack(r) PROVE SendBufInv'
  BY <1>3, <1>t DEF Pack, Retire
<1>4. ASSUME NEW r \in Rank, Kernel(r) PROVE SendBufInv'
  BY <1>4, <1>t DEF Kernel
<1>5. ASSUME NEW r \in Rank, NEW d \in Side, Put(r, d) PROVE SendBufInv'
  BY <1>5, <1>t DEF Put, PutPc, Retire
<1>6. ASSUME NEW r \in Rank, NEW d \in Side, Unpack(r, d) PROVE SendBufInv'
  BY <1>6, <1>t DEF Unpack, UnPc, Retire
<1>7. ASSUME NEW r \in Rank, NEW d \in Side, Deliver(r, d) PROVE SendBufInv'
  BY <1>7 DEF Deliver, gpuVars
<1>8. CASE UNCHANGED vars
  BY <1>8 DEF vars, gpuVars, dataVars
<1> QED
  BY <1>1, <1>2, <1>3, <1>4, <1>5, <1>6, <1>7, <1>8 DEF Next, Gpu, Terminated

LEMMA GhostStep == IInv /\ TokenRun /\ [Next]_vars => GhostInv'
<1> SUFFICES ASSUME Core, TypeOK, SlotInv, GhostInv, TokenRun, [Next]_vars PROVE GhostInv'
  BY DEF IInv, Core
<1>t. /\ gen \in [Rank -> Nat] /\ gpc \in [Rank -> GpuPc]
      /\ ghost \in [Rank -> [Side -> Stamp]]
  BY DEF TypeOK
<1> USE DEF GhostInv
<1>1. ASSUME NEW r \in Rank, Host(r) PROVE GhostInv'
  BY <1>1, HostFrame DEF gpuVars, dataVars
<1>2. ASSUME NEW r \in Rank, Memset(r) PROVE GhostInv'
  BY <1>2, <1>t DEF Memset, Retire
<1>3. ASSUME NEW r \in Rank, Pack(r) PROVE GhostInv'
  BY <1>3, <1>t DEF Pack, Retire
<1>4. ASSUME NEW r \in Rank, Kernel(r) PROVE GhostInv'
  BY <1>4, <1>t DEF Kernel
<1>5. ASSUME NEW r \in Rank, NEW d \in Side, Put(r, d) PROVE GhostInv'
  BY <1>5, <1>t DEF Put, PutPc, Retire
<1>6. ASSUME NEW r \in Rank, NEW d \in Side, Unpack(r, d) PROVE GhostInv'
  <2>1. HasNbr(r, d) => recvSlot[r][d][Slot(gen[r])] = gen[r]
    BY <1>6, FreshSlot DEF Unpack, UnPc, InStream
  <2>2. /\ gen' = gen /\ gpc' = [gpc EXCEPT ![r] = IF d = "L" THEN "unR" ELSE "stencil"]
        /\ gpc[r] = IF d = "L" THEN "unL" ELSE "unR"
    BY <1>6 DEF Unpack, UnPc, Retire
  <2>3. ghost' = [ghost EXCEPT ![r][d] = IF HasNbr(r, d) THEN gen[r] ELSE @]
    BY <1>6, <2>1 DEF Unpack
  <2>4. ASSUME NEW q \in Rank, NEW e \in Side, HasNbr(q, e),
               gpc'[q] \in {"stencil"} \cup (IF e = "L" THEN {"unR"} ELSE {})
        PROVE  ghost'[q][e] = gen'[q]
    <3>1. CASE q # r
      BY <1>t, <2>2, <2>3, <2>4, <3>1
    <3>2. CASE q = r /\ e = d
      BY <1>t, <2>2, <2>3, <2>4, <3>2
    <3>3. CASE q = r /\ e # d
      BY <1>t, <2>2, <2>3, <2>4, <3>3 DEF Side
    <3> QED
      BY <3>1, <3>2, <3>3
  <2> QED
    BY <2>4
<1>7. ASSUME NEW r \in Rank, NEW d \in Side, Deliver(r, d) PROVE GhostInv'
  BY <1>7 DEF Deliver, gpuVars
<1>8. CASE UNCHANGED vars
  BY <1>8 DEF vars, gpuVars, dataVars
<1> QED
  BY <1>1, <1>2, <1>3, <1>4, <1>5, <1>6, <1>7, <1>8 DEF Next, Gpu, Terminated

LEMMA GridStep == IInv /\ TokenRun /\ [Next]_vars => GridInv'
<1> SUFFICES ASSUME TypeOK, GhostInv, GridInv, [Next]_vars PROVE GridInv'
  BY DEF IInv
<1>t. /\ gen \in [Rank -> Nat] /\ grid \in [Rank -> Stamp]
  BY DEF TypeOK
<1> USE DEF GridInv
<1>1. ASSUME NEW r \in Rank, Host(r) PROVE GridInv'
  BY <1>1, HostFrame DEF gpuVars, dataVars
<1>2. ASSUME NEW r \in Rank, Memset(r) \/ Pack(r) PROVE GridInv'
  BY <1>2 DEF Memset, Pack, Retire
<1>3. ASSUME NEW r \in Rank, Kernel(r) PROVE GridInv'
  <2>1. grid[r] # None /\ \A d \in Side : HasNbr(r, d) => ghost[r][d] = gen[r]
    BY <1>3, <1>t DEF Kernel, GhostInv, None
  <2> QED
    BY <1>3, <1>t, <2>1 DEF Kernel
<1>4. ASSUME NEW r \in Rank, NEW d \in Side, Put(r, d) \/ Unpack(r, d) PROVE GridInv'
  BY <1>4 DEF Put, Unpack, Retire
<1>5. ASSUME NEW r \in Rank, NEW d \in Side, Deliver(r, d) PROVE GridInv'
  BY <1>5 DEF Deliver, gpuVars
<1>6. CASE UNCHANGED vars
  BY <1>6 DEF vars, gpuVars, dataVars
<1> QED
  BY <1>1, <1>2, <1>3, <1>4, <1>5, <1>6 DEF Next, Gpu, Terminated

\* While a window is being cleared nothing has been written to it.
LEMMA ClearBeforeWrites ==
  ASSUME Core, AlignInv, NEW r \in Rank, gpc[r] = "memset", NEW d \in Side, HasNbr(r, d)
  PROVE  Written(r, d) = 0
<1> DEFINE n == Nbr(r, d)  f == Opp(d)
<1>1. n \in Rank /\ f \in Side
  BY Sides
<1>2. pc[r] = "top" /\ iter[r] = 0
  BY DEF Core, StreamInv, StreamAt
<1>3. pc[n] \in {"top", "align"}
  <2>1. arrived[r] = 0
    BY <1>2 DEF AlignInv
  <2>2. ~(arrived[r] >= 1)
    BY <2>1
  <2> QED
    BY <1>1, <2>2 DEF AlignInv
<1>4. gen[n] = 0 /\ gpc[n] \in {"memset", "pack"}
  <2>1. StreamAt(n)
    BY <1>1 DEF Core, StreamInv
  <2> QED
    BY <1>3, <2>1 DEF StreamAt, Late, HsPc
<1>5. rcvd[r][d] = 0
  <2>1. pc[r] \notin MayHaveRcvd(r, d)
    BY <1>2 DEF MayHaveRcvd, RcvdPc, HsPc, HsPast
  <2> QED
    BY <1>2, <2>1 DEF Core, CountInv
<1> QED
  BY <1>4, <1>5 DEF Written, PutsDone

\* The slots of one side, which every step is checked against.
SlotAt(r, d) == LastTwo(recvSlot[r][d], Written(r, d))

LEMMA SlotStep == IInv /\ TokenRun /\ [Next]_vars => SlotInv'
<1> SUFFICES ASSUME Core, TypeOK, SidesInv, CountInv, PairInv, StreamInv, AlignInv, SendBufInv,
                    SlotInv, TokenRun, [Next]_vars, NEW q \in Rank, NEW e \in Side, HasNbr(q, e)
             PROVE  SlotAt(q, e)'
  BY DEF IInv, Core, SlotInv, SlotAt, LastTwo
<1> DEFINE m == Nbr(q, e)  f == Opp(e)
<1>m. m \in Rank /\ f \in Side /\ m # q /\ HasNbr(m, f) /\ Nbr(m, f) = q /\ Opp(f) = e
  BY Sides
<1>0. SlotAt(q, e)
  BY DEF SlotInv, SlotAt, LastTwo
<1>t. /\ gen \in [Rank -> Nat] /\ gpc \in [Rank -> GpuPc] /\ iter \in [Rank -> Nat]
      /\ recvSlot \in [Rank -> [Side -> [0 .. 1 -> Stamp]]]
      /\ rcvd \in [Rank -> [Side -> Nat]] /\ ipcOk \in [Rank -> [Side -> BOOLEAN]]
  BY DEF TypeOK
<1>w. Written(q, e) \in Nat
  BY <1>m, <1>t DEF Written, PutsDone
<1>k. ASSUME recvSlot'[q][e] = recvSlot[q][e], ipcOk' = ipcOk,
             ipcOk[q][e] => PutsDone(m, f)' = PutsDone(m, f),
             ~ipcOk[q][e] => rcvd'[q][e] = rcvd[q][e]
      PROVE  SlotAt(q, e)'
  <2>1. Written(q, e)' = Written(q, e)
    BY <1>k DEF Written
  <2> QED
    BY <1>0, <1>k, <2>1 DEF SlotAt
<1> HIDE DEF m, f
<1>1. ASSUME NEW r \in Rank, Host(r) PROVE SlotAt(q, e)'
  <2>1. UNCHANGED <<gen, gpc, recvSlot, ipcOk>>
    BY <1>1, HostFrame DEF gpuVars, dataVars
  <2>2. ~ipcOk[q][e] => rcvd'[q][e] = rcvd[q][e]
    <3> SUFFICES ASSUME ~ipcOk[q][e] PROVE rcvd'[q][e] = rcvd[q][e]
      OBVIOUS
    <3>1. ASSUME NEW k \in 0 .. 3, NEW l \in 0 .. 3, HsMeet(r, k, l)
          PROVE  rcvd'[q][e] = rcvd[q][e]
      <4>1. /\ HsSide(k) \in Side /\ ipcOk[r][HsSide(k)]
            /\ rcvd' = [rcvd EXCEPT ![Nbr(r, HsSide(k))][Opp(HsSide(k))] = @ + 1]
        BY <3>1, HsMoves DEF HsMeet
      <4>2. ipcOk[Nbr(r, HsSide(k))][Opp(HsSide(k))]
        BY <4>1 DEF SidesInv
      <4> QED
        BY <1>t, <4>1, <4>2
    <3>2. rcvd' = rcvd \/ \E k \in 0 .. 3, l \in 0 .. 3 : HsMeet(r, k, l)
      BY <1>1 DEF Host, Align, LeaveAlign, Launch, SyncSend, WaitAll, LaunchUnpack, Finish,
                  FreeWindows, HsSkip, msgVars
    <3> QED
      BY <3>1, <3>2
  <2> QED
    BY <1>k, <2>1, <2>2 DEF PutsDone
<1>2. ASSUME NEW r \in Rank, Memset(r) PROVE SlotAt(q, e)'
  <2>1. /\ gen' = gen /\ gpc' = [gpc EXCEPT ![r] = "pack"] /\ gpc[r] = "memset"
        /\ UNCHANGED <<ipcOk, rcvd>>
    BY <1>2 DEF Memset, Retire, msgVars
  <2>2. PutsDone(m, f)' = PutsDone(m, f)
    BY <1>t, <1>m, <2>1 DEF PutsDone
  <2>3. CASE q # r
    <3>1. recvSlot'[q][e] = recvSlot[q][e]
      BY <1>2, <1>t, <2>3 DEF Memset
    <3> QED
      BY <1>k, <2>1, <2>2, <3>1
  <2>4. CASE q = r
    <3>1. Written(q, e) = 0
      BY <2>1, <2>4, ClearBeforeWrites
    <3>2. Written(q, e)' = Written(q, e)
      BY <2>1, <2>2 DEF Written, m, f
    <3> QED
      BY <3>1, <3>2 DEF SlotAt, LastTwo
  <2> QED
    BY <2>3, <2>4
<1>3. ASSUME NEW r \in Rank, Pack(r) PROVE SlotAt(q, e)'
  <2>1. /\ gen' = gen /\ gpc' = [gpc EXCEPT ![r] = "putL"] /\ gpc[r] = "pack"
        /\ UNCHANGED <<ipcOk, rcvd, recvSlot>>
    BY <1>3 DEF Pack, Retire, msgVars
  <2>2. PutsDone(m, f)' = PutsDone(m, f)
    BY <1>t, <1>m, <2>1 DEF PutsDone
  <2> QED
    BY <1>k, <2>1, <2>2
<1>4. ASSUME NEW r \in Rank, Kernel(r) PROVE SlotAt(q, e)'
  <2>1. /\ gen' = [gen EXCEPT ![r] = @ + 1] /\ gpc' = [gpc EXCEPT ![r] = "pack"]
        /\ gpc[r] = "stencil" /\ UNCHANGED <<ipcOk, rcvd, recvSlot>>
    BY <1>4 DEF Kernel, msgVars
  <2>2. PutsDone(m, f)' = PutsDone(m, f)
    BY <1>t, <1>m, <2>1 DEF PutsDone
  <2> QED
    BY <1>k, <2>1, <2>2
<1>5. ASSUME NEW r \in Rank, NEW d \in Side, Put(r, d) PROVE SlotAt(q, e)'
  <2>1. /\ gen' = gen /\ gpc' = [gpc EXCEPT ![r] = IF d = "L" THEN "putR" ELSE "unL"]
        /\ gpc[r] = (IF d = "L" THEN "putL" ELSE "putR") /\ UNCHANGED <<ipcOk, rcvd>>
    BY <1>5 DEF Put, PutPc, Retire, msgVars
  <2>2. CASE m = r /\ f = d /\ ipcOk[q][e]
    <3>1. HasNbr(r, d) /\ Nbr(r, d) = q /\ Opp(d) = e
      BY <1>m, <2>2
    <3>2. ipcOk[r][d]
      BY <2>2 DEF SidesInv, m, f
    <3>3. sendBuf[r][d] = gen[r]
      BY <2>1, <3>1 DEF SendBufInv
    <3>4. Slot(gen[r]) = gen[r] % 2
      BY <1>t, TokenSlot
    <3>5. recvSlot'[q][e] = [recvSlot[q][e] EXCEPT ![gen[r] % 2] = gen[r]]
      BY <1>5, <1>t, <3>1, <3>2, <3>3, <3>4 DEF Put
    <3>6. Written(q, e) = gen[r] /\ Written(q, e)' = gen[r] + 1
      BY <1>t, <2>1, <2>2 DEF Written, PutsDone, m, f, Side
    <3>7. recvSlot[q][e] \in [0 .. 1 -> Stamp] /\ gen[r] \in Nat
      BY <1>t
    <3> QED
      BY <1>0, <3>5, <3>6, <3>7, LastTwoWrite DEF SlotAt
  <2>3. CASE ~(m = r /\ f = d /\ ipcOk[q][e])
    <3>1. recvSlot'[q][e] = recvSlot[q][e]
      <4>1. ASSUME ipcOk[r][d], Nbr(r, d) = q, Opp(d) = e PROVE FALSE
        <5>1. HasNbr(r, d) /\ ipcOk[q][e]
          BY <4>1 DEF SidesInv
        <5>2. r = m /\ d = f
          BY <4>1, <5>1, Sides DEF m, f
        <5> QED
          BY <2>3, <5>1, <5>2
      <4> QED
        BY <1>5, <1>t, <4>1 DEF Put
    <3>2. ipcOk[q][e] => PutsDone(m, f)' = PutsDone(m, f)
      BY <1>m, <1>t, <2>1, <2>3 DEF PutsDone, Side
    <3> QED
      BY <1>k, <2>1, <3>1, <3>2
  <2> QED
    BY <2>2, <2>3
<1>6. ASSUME NEW r \in Rank, NEW d \in Side, Unpack(r, d) PROVE SlotAt(q, e)'
  <2>1. /\ gen' = gen /\ gpc' = [gpc EXCEPT ![r] = IF d = "L" THEN "unR" ELSE "stencil"]
        /\ gpc[r] = (IF d = "L" THEN "unL" ELSE "unR") /\ UNCHANGED <<ipcOk, rcvd, recvSlot>>
    BY <1>6 DEF Unpack, UnPc, Retire, msgVars
  <2>2. PutsDone(m, f)' = PutsDone(m, f)
    BY <1>t, <1>m, <2>1 DEF PutsDone
  <2> QED
    BY <1>k, <2>1, <2>2
<1>7. ASSUME NEW r \in Rank, NEW d \in Side, Deliver(r, d) PROVE SlotAt(q, e)'
  <2>1. /\ rcvd' = [rcvd EXCEPT ![r][d] = @ + 1] /\ UNCHANGED <<ipcOk, gen, gpc>>
        /\ recvSlot' = IF ipcOk[r][d] THEN recvSlot
             ELSE [recvSlot EXCEPT ![r][d][Slot(iter[r])] = sendBuf[Nbr(r, d)][Opp(d)]]
    BY <1>7 DEF Deliver, gpuVars
  <2>2. CASE q = r /\ e = d /\ ~ipcOk[q][e]
    <3>1. rcvd[q][e] = iter[q] /\ sent[m][f] > rcvd[q][e]
      BY <1>7, <2>2 DEF Deliver, m, f
    <3>2. ~ipcOk[m][f]
      BY <1>m, <2>2 DEF SidesInv
    <3>3. sent[m][f] = rcvd[q][e] + 1 /\ pc[m] = "wait"
      <4>1. sent[m][f] \in Nat /\ rcvd[q][e] \in Nat
        BY <1>m DEF TypeOK
      <4>2. /\ sent[m][f] <= rcvd[Nbr(m, f)][Opp(f)] + 1
            /\ pc[m] # "wait" => sent[m][f] = rcvd[Nbr(m, f)][Opp(f)]
        BY <1>m, <3>2 DEF PairInv
      <4> QED
        BY <1>m, <3>1, <4>1, <4>2
    <3>4. sent[m][f] = iter[m] + 1
      BY <1>m, <3>2, <3>3 DEF CountInv, SentPc, Expects, Late
    <3>5. gen[m] = iter[m] /\ gpc[m] = "unL"
      <4>1. StreamAt(m)
        BY <1>m DEF StreamInv
      <4> QED
        BY <3>3, <4>1 DEF StreamAt
    <3>6. sendBuf[m][f] = iter[q] /\ iter[q] \in Nat
      <4>1. sendBuf[m][f] = gen[m]
        BY <1>m, <3>5 DEF SendBufInv
      <4>2. iter[m] \in Nat /\ iter[q] \in Nat
        BY <1>m, <1>t
      <4>3. iter[m] = iter[q]
        BY <3>1, <3>3, <3>4, <4>2
      <4> QED
        BY <3>5, <4>1, <4>2, <4>3
    <3>7. Slot(iter[q]) = iter[q] % 2
      BY <3>6, TokenSlot
    <3>8. recvSlot'[q][e] = [recvSlot[q][e] EXCEPT ![iter[q] % 2] = iter[q]]
      BY <1>t, <2>1, <2>2, <3>6, <3>7 DEF m, f
    <3>9. Written(q, e) = iter[q] /\ Written(q, e)' = iter[q] + 1
      BY <1>t, <2>1, <2>2, <3>1 DEF Written
    <3>10. recvSlot[q][e] \in [0 .. 1 -> Stamp]
      BY <1>t
    <3> QED
      BY <1>0, <3>6, <3>8, <3>9, <3>10, LastTwoWrite DEF SlotAt
  <2>3. CASE ~(q = r /\ e = d /\ ~ipcOk[q][e])
    <3>1. recvSlot'[q][e] = recvSlot[q][e]
      BY <1>t, <2>1, <2>3
    <3>2. ~ipcOk[q][e] => rcvd'[q][e] = rcvd[q][e]
      BY <1>t, <2>1, <2>3
    <3> QED
      BY <1>k, <2>1, <3>1, <3>2 DEF PutsDone
  <2> QED
    BY <2>2, <2>3
<1>8. CASE UNCHANGED vars
  BY <1>k, <1>8 DEF vars, gpuVars, dataVars, msgVars, PutsDone
<1> QED
  BY <1>1, <1>2, <1>3, <1>4, <1>5, <1>6, <1>7, <1>8 DEF Next, Gpu, Terminated

(***************************************************************************)
(* The inductive invariant, and what follows from it.                      *)
(***************************************************************************)

LEMMA InvInit == TokenRun /\ Init => IInv
<1> SUFFICES ASSUME TokenRun, Init PROVE IInv
  OBVIOUS
<1>1. TypeOK /\ LoopBound /\ SidesInv
  BY TypeInit DEF TypeInv
<1>2. /\ iter = [r \in Rank |-> 0] /\ gen = [r \in Rank |-> 0] /\ grid = [r \in Rank |-> 0]
      /\ pc = [r \in Rank |-> "top"] /\ arrived = [r \in Rank |-> 0]
      /\ gpc = [r \in Rank |-> IF r = HeatRank THEN "pack" ELSE "memset"]
      /\ sent = [r \in Rank |-> [d \in Side |-> 0]] /\ rcvd = [r \in Rank |-> [d \in Side |-> 0]]
  BY TokenTop DEF Init
<1>3. StreamInv
  BY <1>2 DEF StreamInv, StreamAt
<1>4. AlignInv
  BY <1>2 DEF AlignInv
<1>5. CountInv
  BY <1>2 DEF CountInv, SentPc, MayHaveRcvd, RcvdPc, Late, HsPc, HsPast
<1>6. PairInv
  BY <1>2, Sides DEF PairInv
<1>7. SendBufInv /\ GhostInv /\ GridInv
  BY <1>2 DEF SendBufInv, GhostInv, GridInv
<1>8. SlotInv
  <2>1. ASSUME NEW r \in Rank, NEW d \in Side, HasNbr(r, d) PROVE Written(r, d) = 0
    BY <1>2, <2>1, Sides DEF Written, PutsDone
  <2> QED
    BY <2>1 DEF SlotInv
<1> QED
  BY <1>1, <1>3, <1>4, <1>5, <1>6, <1>7, <1>8 DEF IInv

LEMMA InvStep == IInv /\ TokenRun /\ [Next]_vars => IInv'
<1>1. IInv /\ TokenRun /\ [Next]_vars => (TypeOK /\ LoopBound /\ SidesInv)'
  BY TypeStep DEF IInv, TypeInv
<1> QED
  BY <1>1, StreamStep, AlignStep, CountStep, PairStep, SendBufStep, SlotStep, GhostStep, GridStep
     DEF IInv

\* The inductive invariant holds throughout a run of the token handshakes.
THEOREM TokenInvariant == TokenRun /\ Spec => []IInv
<1>1. TokenRun /\ Init /\ [][Next]_vars => []IInv
  <2>1. TokenRun => []TokenRun
    <3>1. TokenRun => TokenRun'
      BY DEF TokenRun
    <3> QED
      BY <3>1, PTL
  <2> QED
    BY <2>1, InvInit, InvStep, PTL
<1> QED
  BY <1>1, PTL DEF Spec

\* The ghost column an unpack reads is the one of its iteration: neither an
\* older column nor the one that will return to the same slot.
THEOREM GhostsFresh == TokenRun /\ Spec => [](NoStaleGhost /\ NoOverwrittenGhost)
<1>1. IInv /\ TokenRun => NoStaleGhost /\ NoOverwrittenGhost
  <2> SUFFICES ASSUME IInv, TokenRun, NEW r \in Rank, NEW d \in Side, UnpackPending(r, d)
               PROVE  recvSlot[r][d][Slot(gen[r])] = gen[r] /\ gen[r] \in Int
    BY DEF NoStaleGhost, NoOverwrittenGhost
  <2>1. Core /\ SlotInv /\ gen[r] \in Int
    BY DEF IInv, Core, TypeOK
  <2> QED
    BY <2>1, FreshSlot DEF UnpackPending
<1>2. TokenRun /\ []IInv => []TokenRun
  <2>1. TokenRun => TokenRun'
    BY DEF TokenRun
  <2> QED
    BY <2>1, PTL
<1> QED
  BY <1>1, <1>2, TokenInvariant, PTL

\* No rank is two iterations ahead of a neighbour.
THEOREM DriftBounded == TokenRun /\ Spec => []DriftBound
<1>1. IInv => DriftBound
  <2> SUFFICES ASSUME IInv, NEW r \in Rank, NEW d \in Side, HasNbr(r, d)
               PROVE  iter[r] <= iter[Nbr(r, d)] + 1
    BY DEF DriftBound
  <2>1. Core
    BY DEF IInv, Core
  <2>2. /\ Nbr(r, d) \in Rank /\ Opp(d) \in Side /\ HasNbr(Nbr(r, d), Opp(d))
        /\ Nbr(Nbr(r, d), Opp(d)) = r /\ Opp(Opp(d)) = d
    BY Sides
  <2>3. /\ iter[r] \in Nat /\ iter[Nbr(r, d)] \in Nat /\ rcvd[r][d] \in Nat
        /\ sent[Nbr(r, d)][Opp(d)] \in Nat
    BY <2>1, <2>2 DEF Core, TypeOK
  <2>4. iter[r] <= rcvd[r][d]
    BY <2>1, PutsSent
  <2>5. rcvd[Nbr(Nbr(r, d), Opp(d))][Opp(Opp(d))] <= sent[Nbr(r, d)][Opp(d)]
    BY <2>1, <2>2 DEF Core, PairInv
  <2>6. sent[Nbr(r, d)][Opp(d)] <= iter[Nbr(r, d)] + 1
    BY <2>1, <2>2, <2>3 DEF Core, CountInv
  <2>7. rcvd[r][d] <= sent[Nbr(r, d)][Opp(d)]
    BY <2>2, <2>5
  <2> QED
    BY <2>3, <2>4, <2>6, <2>7
<1> QED
  BY <1>1, TokenInvariant, PTL

(***************************************************************************)
(* The exchange implements the synchronous iteration of Jacobi.            *)
(***************************************************************************)

LEMMA RefineStep == IInv /\ TokenRun /\ [Next]_vars => [Reference!Next]_grid
<1> SUFFICES ASSUME IInv, [Next]_vars PROVE Reference!Next \/ grid' = grid
  OBVIOUS
<1>c. Core /\ GhostInv /\ GridInv
  BY DEF IInv, Core
<1>t. gen \in [Rank -> 0 .. Total] /\ iter \in [Rank -> 0 .. Total]
  BY <1>c DEF Core, TypeOK
<1>1. ASSUME NEW r \in Rank, Host(r) PROVE grid' = grid
  BY <1>1, HostFrame DEF dataVars
<1>2. ASSUME NEW r \in Rank, Memset(r) \/ Pack(r) PROVE grid' = grid
  BY <1>2 DEF Memset, Pack
<1>3. ASSUME NEW r \in Rank, NEW d \in Side, Put(r, d) \/ Unpack(r, d) \/ Deliver(r, d)
      PROVE  grid' = grid
  BY <1>3 DEF Put, Unpack, Deliver
<1>4. ASSUME NEW r \in Rank, Kernel(r) PROVE Reference!Advance(r)
  <2>1. gpc[r] = "stencil" /\ gen[r] < iter[r] /\ grid[r] = gen[r]
    BY <1>4, <1>c DEF Kernel, InStream, GridInv
  <2>2. grid[r] < Total
    BY <1>t, <2>1
  <2>3. ASSUME NEW q \in Reference!Adjacent(r) PROVE grid[q] \in {grid[r], grid[r] + 1}
    <3>1. q \in Rank /\ \E d \in Side : HasNbr(r, d) /\ Nbr(r, d) = q
      BY DEF Reference!Adjacent, Reference!Strip, Rank, Side, HasNbr, Nbr
    <3>2. PICK d \in Side : HasNbr(r, d) /\ Nbr(r, d) = q
      BY <3>1
    <3>3. gen[q] \in {gen[r], gen[r] + 1}
      BY <1>c, <2>1, <3>2, Window
    <3> QED
      BY <1>c, <3>1, <3>3 DEF GridInv
  <2>4. grid' = [grid EXCEPT ![r] = @ + 1]
    <3>1. grid[r] # None /\ \A d \in Side : HasNbr(r, d) => ghost[r][d] = gen[r]
      BY <1>c, <1>t, <2>1 DEF GhostInv, None
    <3> QED
      BY <1>4, <2>1, <3>1 DEF Kernel
  <2> QED
    BY <2>2, <2>3, <2>4 DEF Reference!Advance
<1>5. CASE UNCHANGED vars
  BY <1>5 DEF vars, dataVars
<1>6. \A r \in Rank : r \in Reference!Strip
  BY DEF Rank, Reference!Strip
<1> QED
  BY <1>1, <1>2, <1>3, <1>4, <1>5, <1>6 DEF Next, Gpu, Terminated, Reference!Next

\* Every strip advances one generation at a time, each time from its own and
\* its neighbours' previous generation, whatever mixture of direct copies and
\* messages moves the columns.  (The safety part of JacobiSpec.)
THEOREM ImplementsJacobi ==
  TokenRun /\ Spec => Reference!Init /\ [][Reference!Next]_grid
<1>1. Init => Reference!Init
  BY DEF Init, Reference!Init, Rank, Reference!Strip
<1>2. TokenRun => TokenRun'
  BY DEF TokenRun
<1> QED
  BY <1>1, <1>2, RefineStep, TokenInvariant, PTL DEF Spec

-----------------------------------------------------------------------------
(***************************************************************************)
(* What holds between the runs of two ranks of Stencil: that a buffer MPI  *)
(* reads is left alone, and that nothing is under way when the first rank  *)
(* frees its windows.  The second needs one more invariant: the barrier    *)
(* before the free is entered by a rank after its last iteration only.     *)
(***************************************************************************)

Ended == {"free", "done"}
EndInv ==
  \A r \in Rank :
    /\ pc[r] \in {"drain"} \cup Ended => iter[r] = Total
    /\ arrived[r] >= 2 <=> pc[r] \in Ended
    /\ pc[r] \notin {"top"} \cup Ended => arrived[r] = 1
    /\ pc[r] = "top" => arrived[r] = 0
    /\ pc[r] \in Ended => arrived[r] = 2
    /\ pc[r] = "done" => \A q \in Rank : arrived[q] >= 2

LEMMA EndInit == TokenRun /\ Init => EndInv
<1>1. TokenRun => TopPc(0) = "top" BY TokenTop
<1> QED BY <1>1 DEF Init, EndInv, Ended

LEMMA EndStep == IInv /\ EndInv /\ TokenRun /\ [Next]_vars => EndInv'
<1> SUFFICES ASSUME TypeOK, LoopBound, EndInv, TokenRun, [Next]_vars PROVE EndInv'
  BY DEF IInv
<1>t. /\ arrived \in [Rank -> Nat] /\ pc \in [Rank -> HostPc] /\ iter \in [Rank -> Nat]
      /\ sync \in {"neighbor", "ssend"}
  BY Tokens DEF TypeOK
<1> USE DEF EndInv, Ended
<1>1. ASSUME NEW r \in Rank, Align(r) PROVE EndInv'
  BY <1>1, <1>t DEF Align, Goto
<1>2. ASSUME NEW r \in Rank, LeaveAlign(r) PROVE EndInv'
  BY <1>2, <1>t DEF LeaveAlign, Goto, msgVars
<1>3. ASSUME NEW r \in Rank, Launch(r) PROVE EndInv'
  BY <1>3, <1>t DEF Launch, Goto, msgVars
<1>4. ASSUME NEW r \in Rank, SyncSend(r) PROVE EndInv'
  BY <1>4, <1>t DEF SyncSend, Goto
<1>5. ASSUME NEW r \in Rank, WaitAll(r) PROVE EndInv'
  BY <1>5, <1>t DEF WaitAll, Goto
<1>6. ASSUME NEW r \in Rank, LaunchUnpack(r) PROVE EndInv'
  <2>1. /\ TopPc(iter[r] + 1) \in {"post", "drain"}
        /\ TopPc(iter[r] + 1) = "drain" => iter[r] + 1 = Total
    BY <1>t, TokenTop DEF TopPc
  <2> QED
    BY <1>6, <1>t, <2>1 DEF LaunchUnpack, Goto, msgVars
<1>7. ASSUME NEW r \in Rank, Finish(r) PROVE EndInv'
  BY <1>7, <1>t DEF Finish, Goto
<1>8. ASSUME NEW r \in Rank, FreeWindows(r) PROVE EndInv'
  BY <1>8, <1>t DEF FreeWindows, Goto, BarrierOpen, msgVars
<1>9. ASSUME NEW r \in Rank, NEW k \in 0 .. 3, HsSkip(r, k) PROVE EndInv'
  BY <1>9, <1>t DEF HsSkip, Goto, HsStep, msgVars
<1>10. ASSUME NEW r \in Rank, NEW k \in 0 .. 3, NEW l \in 0 .. 3, HsMeet(r, k, l)
       PROVE EndInv'
  BY <1>10, <1>t DEF HsMeet, HsStep
<1>11. ASSUME NEW r \in Rank, Memset(r) \/ Pack(r) \/ Kernel(r) PROVE EndInv'
  BY <1>11 DEF Memset, Pack, Kernel, hostVars, msgVars
<1>12. ASSUME NEW r \in Rank, NEW d \in Side, Put(r, d) \/ Unpack(r, d) PROVE EndInv'
  BY <1>12 DEF Put, Unpack, hostVars, msgVars
<1>13. ASSUME NEW r \in Rank, NEW d \in Side, Deliver(r, d) PROVE EndInv'
  BY <1>13 DEF Deliver, hostVars
<1>14. CASE UNCHANGED vars
  BY <1>14 DEF vars, hostVars, msgVars
<1> QED
  BY <1>1, <1>2, <1>3, <1>4, <1>5, <1>6, <1>7, <1>8, <1>9, <1>10, <1>11, <1>12, <1>13,
     <1>14 DEF Next, Host, Gpu, Terminated

LEMMA EndInvariant == TokenRun /\ Spec => [](IInv /\ EndInv /\ TokenRun)
<1>1. TokenRun => TokenRun'
  BY DEF TokenRun
<1> QED
  BY <1>1, EndInit, EndStep, TokenInvariant, PTL DEF Spec

\* What a rank has sent out of a side and its neighbour has not received: at
\* most two messages, and none once a rank has freed its windows.
THEOREM MessagesArePaired == TokenRun /\ Spec => []MessagesPair
<1>1. IInv /\ EndInv => MessagesPair
  <2> SUFFICES ASSUME IInv, EndInv, NEW r \in Rank, NEW d \in Side, HasNbr(r, d)
               PROVE  /\ sent[r][d] - rcvd[Nbr(r, d)][Opp(d)] \in 0 .. 2
                      /\ (\E q \in Rank : pc[q] = "done") => sent[r][d] - rcvd[Nbr(r, d)][Opp(d)] = 0
    BY DEF MessagesPair
  <2> DEFINE q == Nbr(r, d)
             e == Opp(d)
  <2>1. /\ q \in Rank /\ e \in Side /\ HasNbr(q, e) /\ Nbr(q, e) = r /\ Opp(e) = d
    BY Sides
  <2>2. Core /\ CountInv /\ PairInv /\ TypeOK
    BY DEF IInv, Core
  <2>3. /\ iter[r] \in Nat /\ iter[q] \in Nat /\ sent[r][d] \in Nat /\ rcvd[q][e] \in Nat
        /\ rcvd[r][d] \in Nat /\ sent[q][e] \in Nat
    BY <2>1, <2>2 DEF TypeOK
  <2>4. rcvd[q][e] <= sent[r][d] /\ rcvd[r][d] <= sent[q][e]
    BY <2>1, <2>2 DEF PairInv
  <2>5. sent[r][d] <= iter[r] + 1 /\ iter[q] <= rcvd[q][e]
        /\ iter[r] <= rcvd[r][d] /\ sent[q][e] <= iter[q] + 1
    BY <2>1, <2>2, <2>3 DEF CountInv
  <2>6. sent[r][d] - rcvd[q][e] \in 0 .. 2
    BY <2>3, <2>4, <2>5
  <2>7. ASSUME NEW p \in Rank, pc[p] = "done" PROVE sent[r][d] - rcvd[q][e] = 0
    <3>1. pc[r] \in Ended /\ pc[q] \in Ended /\ iter[r] = Total /\ iter[q] = Total
      BY <2>1, <2>7 DEF EndInv
    <3>2. sent[r][d] = iter[r]
      BY <2>2, <3>1, <2>3 DEF CountInv, SentPc, Late, HsPast, HsPc, Ended
    <3>3. rcvd[q][e] = iter[q]
      BY <2>1, <2>2, <3>1 DEF CountInv, MayHaveRcvd, RcvdPc, HsPast, HsPc, Ended
    <3> QED BY <3>1, <3>2, <3>3, <2>3
  <2> QED BY <2>6, <2>7
<1> QED
  BY <1>1, EndInvariant, PTL

\* A rank does not pack a side again while its message of the iteration
\* before may still be read from the send buffer.
THEOREM SendBufferStable == TokenRun /\ Spec => SendBufStable
<1> DEFINE Unread(r, d) == HasNbr(r, d) /\ ~ipcOk[r][d] /\ sent[r][d] > rcvd[Nbr(r, d)][Opp(d)]
<1>1. IInv /\ [Next]_vars =>
        [\A r \in Rank, d \in Side : Unread(r, d) => sendBuf'[r][d] = sendBuf[r][d]]_vars
  <2> SUFFICES ASSUME IInv, [Next]_vars, NEW r \in Rank, NEW d \in Side, Unread(r, d)
               PROVE  sendBuf'[r][d] = sendBuf[r][d]
    OBVIOUS
  <2>t. /\ TypeOK /\ StreamInv /\ PairInv
    BY DEF IInv
  <2>1. ASSUME NEW q \in Rank, Pack(q) PROVE sendBuf'[r][d] = sendBuf[r][d]
    <3>1. CASE q # r
      BY <2>1, <3>1, <2>t DEF Pack, TypeOK
    <3>2. CASE q = r
      <4>1. /\ sent[r][d] \in Nat /\ Nbr(r, d) \in Rank /\ Opp(d) \in Side
            /\ rcvd[Nbr(r, d)][Opp(d)] \in Nat
        BY <2>t, Sides DEF TypeOK
      <4>2. pc[r] = "wait"
        BY <4>1, <2>t DEF PairInv
      <4>3. gpc[r] = "unL"
        BY <4>2, <2>t DEF StreamInv, StreamAt, Late
      <4> QED
        BY <4>3, <2>1, <3>2 DEF Pack
    <3> QED BY <3>1, <3>2
  <2>2. ASSUME NEW q \in Rank, Host(q) PROVE sendBuf' = sendBuf
    BY <2>2, HostFrame DEF dataVars
  <2>3. ASSUME NEW q \in Rank, Memset(q) \/ Kernel(q) PROVE sendBuf' = sendBuf
    BY <2>3 DEF Memset, Kernel
  <2>4. ASSUME NEW q \in Rank, NEW b \in Side, Put(q, b) \/ Unpack(q, b) \/ Deliver(q, b)
        PROVE  sendBuf' = sendBuf
    BY <2>4 DEF Put, Unpack, Deliver
  <2>5. CASE UNCHANGED vars
    BY <2>5 DEF vars, dataVars
  <2> QED
    BY <2>1, <2>2, <2>3, <2>4, <2>5 DEF Next, Gpu, Terminated
<1> QED
  BY <1>1, TokenInvariant, PTL DEF Spec, SendBufStable

\* No unpack is launched before the column of its iteration is in its slot.
THEOREM NoGhostStale == TokenRun /\ Spec => []NoStaleGhost
BY GhostsFresh, PTL
=============================================================================
