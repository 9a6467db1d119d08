------------------------------ MODULE MCWinIPC ------------------------------
(***************************************************************************)
(* Instances of WinIPC for TLC.                                            *)
(***************************************************************************)
EXTENDS WinIPCInv

BothCalls == {"create", "allocate"}
CreateCall == {"create"}
AllocateCall == {"allocate"}
AnyVote == BOOLEAN
Able == {TRUE}

Within(node) == {p \in Pairs : node[p[1]] = node[p[2]]}

\* All ranks on one node; a machine is then given by the pairs that deliver,
\* and by whether the driver denies access where nothing is delivered.
OneNode(lands) ==
  [access |-> Pairs, opens |-> Pairs, lands |-> lands, spans |-> FALSE,
   fabric |-> {}, verify |-> Rank]

\* Rank 2 beyond an island boundary the driver does not know of; the same
\* boundary crossed in one direction; the same with access denied; a peer
\* whose handle cannot be opened; the first with the probe switched off.
Island == [r \in Rank |-> IF r = 2 THEN 1 ELSE 0]
Machines ==
  {OneNode(Pairs),
   OneNode(Within(Island)),
   OneNode(Pairs \ {<<0, 2>>}),
   [OneNode(Within(Island)) EXCEPT !.access = Within(Island)],
   [OneNode(Within(Island)) EXCEPT !.opens = Within(Island)],
   [OneNode(Within(Island)) EXCEPT !.verify = {}]}

\* Rank 2 on another node, with fabric handles everywhere or on one node only.
Clusters ==
  {[access |-> Pairs, opens |-> Within(Island), lands |-> Within(Island),
    spans |-> TRUE, fabric |-> f, verify |-> Rank] : f \in {Rank, {0, 1}}}

AllMachines == Machines \cup Clusters
WholeMachine == {OneNode(Pairs)}

\* The probe switched off in the environment of rank 0 alone.
OwnSwitch == {[OneNode(Pairs) EXCEPT !.verify = Rank \ {0}]}
=============================================================================
