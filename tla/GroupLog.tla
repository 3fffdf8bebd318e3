------------------------------ MODULE GroupLog ------------------------------
(***************************************************************************)
(* What a consumer group promises about the logs it reads, whatever its    *)
(* members do to keep it: the offset committed for a topic is always the   *)
(* one just behind a message that was processed, and the commits of one    *)
(* subscription never move it back.  It does not promise that every        *)
(* message below it was processed, nor that it stays where it is when the  *)
(* group forms anew.                                                       *)
(***************************************************************************)
EXTENDS Integers

CONSTANTS
  Topic,     \* topics, one partition each
  Members,   \* members of the group
  Nobody,    \* no member
  NoOffset   \* nothing committed yet

VARIABLES
  end,        \* offset of the next message of each topic
  committed,  \* offset committed by the group for each topic
  committer,  \* the member whose subscription the last commit was of, or Nobody
  processed   \* offsets of each topic that were processed without error

Init ==
  /\ end = [t \in Topic |-> 0]
  /\ committed = [t \in Topic |-> NoOffset]
  /\ committer = [t \in Topic |-> Nobody]
  /\ processed = [t \in Topic |-> {}]

\* Messages are appended, also the copies of a retried write.
Append(t) ==
  /\ end' = [end EXCEPT ![t] = end'[t]]
  /\ end'[t] \in Nat /\ end[t] <= end'[t]
  /\ UNCHANGED <<committed, committer, processed>>

Process(t, o) ==
  /\ processed' = [processed EXCEPT ![t] = @ \union {o}]
  /\ UNCHANGED <<end, committed, committer>>

\* By member c within its subscription, or by Nobody that is still subscribed.
Commit(t, o, c) ==
  /\ c # Nobody /\ committer[t] = c => committed[t] <= o + 1
  /\ committed' = [committed EXCEPT ![t] = o + 1]
  /\ committer' = [committer EXCEPT ![t] = c]
  /\ UNCHANGED <<end, processed>>

\* The subscription of member c ends.
Unsubscribe(c) ==
  /\ committer' = [t \in Topic |-> IF committer[t] = c THEN Nobody ELSE committer[t]]
  /\ UNCHANGED <<end, committed, processed>>

Next ==
  \/ \E t \in Topic :
       \/ Append(t)
       \/ \E o \in 0 .. end[t] - 1 : Process(t, o)
       \/ \E o \in processed[t], c \in Members \union {Nobody} : Commit(t, o, c)
  \/ \E c \in Members : Unsubscribe(c)

Spec == Init /\ [][Next]_<<end, committed, committer, processed>>
=============================================================================
