----------------------------- MODULE PeerWindow -----------------------------
(***************************************************************************)
(* What a window over GPU memory promises the application that writes      *)
(* through peer pointers (mpi-intercept/README.md): the memory behind it   *)
(* changes by the application's stores and by nothing else, and a store    *)
(* through a pointer of a checked window arrives.  On a window that could  *)
(* not be checked a store may vanish.                                      *)
(***************************************************************************)
CONSTANT Rank

VARIABLES state,    \* the rank's window: none, checked, unchecked or closed
          content,  \* content[t][o]: the cell of t's memory that o stores to
          issued    \* the stores issued, as pairs of origin and target

vars == <<state, content, issued>>

Old == {"live", "magic"}

Init ==
  /\ state = [r \in Rank |-> "none"]
  /\ content \in [Rank -> [Rank -> Old]]
  /\ issued = {}

Create(r) ==
  /\ state[r] = "none"
  /\ \E s \in {"checked", "unchecked"} : state' = [state EXCEPT ![r] = s]
  /\ UNCHANGED <<content, issued>>

Store(o, t) ==
  /\ state[o] \in {"checked", "unchecked"} /\ state[t] # "closed"
  /\ <<o, t>> \notin issued
  /\ issued' = issued \cup {<<o, t>>}
  /\ \/ content' = [content EXCEPT ![t][o] = "app"]
     \/ state[o] = "unchecked" /\ UNCHANGED content
  /\ UNCHANGED state

Close(r) ==
  /\ state[r] \in {"checked", "unchecked"}
  /\ state' = [state EXCEPT ![r] = "closed"]
  /\ UNCHANGED <<content, issued>>

Next == \E r \in Rank : Create(r) \/ Close(r) \/ \E t \in Rank : Store(r, t)

Spec == Init /\ [][Next]_vars
=============================================================================
