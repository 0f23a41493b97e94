--------------------------- MODULE MessageStream ---------------------------
(***************************************************************************)
(* What lf::net::Channel promises its owner: two independent streams, one  *)
(* in each direction, that hand over exactly the messages that were sent,  *)
(* in the order in which they were sent.  Datagrams, offsets, windows and  *)
(* acknowledgements do not appear here; Channel implements this module.    *)
(***************************************************************************)
EXTENDS Naturals, Sequences

CONSTANTS End,      \* the two ends of the connection
          Message,  \* the messages an end may send
          Other(_)  \* the end opposite to a given end

VARIABLES posted,   \* posted[e]: every message e has sent
          taken     \* taken[e]: every message handed over to e

streamVars == <<posted, taken>>

Init == /\ posted = [e \in End |-> <<>>]
        /\ taken = [e \in End |-> <<>>]

Post(e, m) == /\ posted' = [posted EXCEPT ![e] = Append(@, m)]
              /\ UNCHANGED taken

(* Some of the messages posted and not handed over yet, oldest first. *)
Take(e) == /\ \E n \in (Len(taken[e]) + 1) .. Len(posted[Other(e)]) :
                taken' = [taken EXCEPT ![e] = SubSeq(posted[Other(e)], 1, n)]
           /\ UNCHANGED posted

Next == \E e \in End : Take(e) \/ \E m \in Message : Post(e, m)

Spec == Init /\ [][Next]_streamVars

(* With fairness nothing posted is withheld for ever. *)
FairSpec == Spec /\ \A e \in End : WF_streamVars(Take(e))
=============================================================================
