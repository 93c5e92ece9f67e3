-------------------------------- MODULE Channel --------------------------------
(***************************************************************************)
(* What a message queue promises to its users, with no scheduler, no ring  *)
(* and no wait lists: a bounded FIFO of the messages accepted, the clients *)
(* that wait to have one accepted or to be given one, and the answer each  *)
(* call returns.  A message is accepted, and a message taken leaves the    *)
(* channel, exactly when the answer is OK.                                 *)
(***************************************************************************)
EXTENDS Integers, Sequences

CONSTANTS Clients, Bound, Values,
          Shared      \* whether clients also make calls that are not about the channel

VARIABLES inTransit,   \* accepted and not yet taken, oldest first
          holding,     \* the message in each client's buffer
          offering,    \* clients waiting to have their message accepted
          wanting,     \* clients waiting for a message
          answer       \* what each client's last call returned

channelVars == <<inTransit, holding, offering, wanting, answer>>

Init ==
    /\ inTransit = <<>>
    /\ \A c, d \in Clients : holding[c] = holding[d]
    /\ offering = {} /\ wanting = {}
    /\ answer = [c \in Clients |-> "BAD_STATE"]      \* no call was answered yet

\* The clients whose buffer and answer are no matter of anything else: all of them,
\* or those that wait here if the others may be in calls elsewhere.
Ours == IF Shared THEN offering \cup wanting ELSE Clients
Undisturbed(S) == \A c \in S : holding'[c] = holding[c] /\ answer'[c] = answer[c]

Answer(c, a) == answer' = [answer EXCEPT ![c] = a]
Hold(c, v) == holding' = [holding EXCEPT ![c] = v]

\* A message is accepted into the channel.
Accept(c, v) ==
    /\ wanting = {} /\ Len(inTransit) < Bound
    /\ inTransit' = Append(inTransit, v)
    /\ Hold(c, v) /\ Answer(c, "OK")
    /\ UNCHANGED <<offering, wanting>>

\* A message goes straight to a client that waits for one; the channel is empty.
Pass(c, v, d) ==
    /\ d \in wanting /\ d # c /\ inTransit = <<>>
    /\ holding' = [holding EXCEPT ![c] = v, ![d] = v]
    /\ wanting' = wanting \ {d}
    /\ answer' = [answer EXCEPT ![c] = "OK", ![d] = "OK"]
    /\ UNCHANGED <<inTransit, offering>>

\* A full channel refuses a message, or makes its sender wait.
Refuse(c, v) ==
    /\ Len(inTransit) = Bound
    /\ Hold(c, v) /\ Answer(c, "TIMEOUT")
    /\ UNCHANGED <<inTransit, offering, wanting>>
Offer(c, v) ==
    /\ Len(inTransit) = Bound
    /\ Hold(c, v) /\ Answer(c, "BAD_STATE")
    /\ offering' = offering \cup {c}
    /\ UNCHANGED <<inTransit, wanting>>

\* The oldest message is taken; a waiting sender's message enters at the end.
Take(c) ==
    /\ inTransit # <<>> /\ offering = {}
    /\ Hold(c, Head(inTransit)) /\ Answer(c, "OK")
    /\ inTransit' = Tail(inTransit)
    /\ UNCHANGED <<offering, wanting>>
TakeAndAccept(c, d) ==
    /\ d \in offering /\ d # c
    /\ Hold(c, Head(inTransit))
    /\ inTransit' = Append(Tail(inTransit), holding[d])
    /\ offering' = offering \ {d}
    /\ answer' = [answer EXCEPT ![c] = "OK", ![d] = "OK"]
    /\ UNCHANGED wanting

\* An empty channel has nothing to give: the client leaves or waits.
Miss(c) ==
    /\ inTransit = <<>>
    /\ Answer(c, "TIMEOUT")
    /\ UNCHANGED <<inTransit, holding, offering, wanting>>
Want(c) ==
    /\ inTransit = <<>>
    /\ Answer(c, "BAD_STATE")
    /\ wanting' = wanting \cup {c}
    /\ UNCHANGED <<inTransit, holding, offering>>

\* The waits of some clients run out: nothing was accepted, nothing taken.
Expire(S) ==
    /\ S # {} /\ S \subseteq offering \cup wanting
    /\ offering' = offering \ S
    /\ wanting' = wanting \ S
    /\ \A c \in S : holding'[c] = holding[c] /\ answer'[c] = "TIMEOUT"
    /\ Undisturbed(Ours \ S)
    /\ UNCHANGED inTransit

\* A call that is not about the channel.
Elsewhere == Undisturbed(Ours) /\ UNCHANGED <<inTransit, offering, wanting>>

Call(c) ==
    \/ Take(c) \/ Miss(c) \/ Want(c)
    \/ \E d \in Clients : TakeAndAccept(c, d)
    \/ \E v \in Values : Accept(c, v) \/ Refuse(c, v) \/ Offer(c, v)
                         \/ \E d \in Clients : Pass(c, v, d)

Next ==
    \/ \E c \in Clients \ (offering \cup wanting) : Call(c)
    \/ \E S \in SUBSET Clients : Expire(S)
    \/ Elsewhere

Spec == Init /\ [][Next]_channelVars
===============================================================================
