------------------------------ MODULE RemoteLog ------------------------------
(***************************************************************************)
(* What the git engine promises its users, without git: one shared log of  *)
(* edits that only grows, and for each device a queue of edits it has not  *)
(* published yet.  Publishing appends the whole queue in order; a sync may *)
(* withdraw edits from the queue (the user let the other version win, or   *)
(* the edit turned out to change nothing), never reorder or add any.       *)
(* GitSync implements it (see Log there).                                  *)
(***************************************************************************)
EXTENDS Naturals, Sequences

CONSTANT Devices

VARIABLES published, queue
logVars == <<published, queue>>

Elements(s) == {s[i] : i \in DOMAIN s}
Known == Elements(published) \cup UNION {Elements(queue[d]) : d \in Devices}

Init ==
  /\ published = <<>>
  /\ queue = [d \in Devices |-> <<>>]

\* A device commits an edit nobody has made before.
Enqueue(d) ==
  /\ Len(queue'[d]) = Len(queue[d]) + 1
  /\ queue'[d][Len(queue'[d])] \in Nat \ Known
  /\ queue' = [queue EXCEPT ![d] = Append(@, queue'[d][Len(queue'[d])])]
  /\ UNCHANGED published

Publish(d) ==
  /\ published' = published \o queue[d]
  /\ queue' = [queue EXCEPT ![d] = <<>>]

\* s is what is left of t once some of its elements are taken out.
LeftOf(s, t) ==
  \E f \in [1..Len(s) -> 1..Len(t)] :
    /\ \A i, j \in 1..Len(s) : i < j => f[i] < f[j]
    /\ s = [i \in 1..Len(s) |-> t[f[i]]]

Withdraw(d) ==
  /\ LeftOf(queue'[d], queue[d])
  /\ queue' = [queue EXCEPT ![d] = queue'[d]]
  /\ UNCHANGED published

Next == \E d \in Devices : Enqueue(d) \/ Publish(d) \/ Withdraw(d)

Spec == Init /\ [][Next]_logVars
=============================================================================
