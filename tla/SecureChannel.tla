--------------------------- MODULE SecureChannel ---------------------------
(***************************************************************************)
(* What the transport promises its users, with no keys, counters or        *)
(* network: ends are opened on channels, each channel has two sides, and   *)
(* an end hears what ends on the other side said, in the order they said   *)
(* it and with nothing left out before it.  It may hear nothing at all.    *)
(* Only one end ever opens the initiating side of a channel.               *)
(***************************************************************************)
EXTENDS Naturals, Sequences

CONSTANTS Ends, Channels, Messages

VARIABLES
  end,    \* the ends opened so far: the channel and the side of each
  said,   \* what each end said
  heard   \* what each end heard

chanVars == <<end, said, heard>>

End == [chan: Channels, side: {"SEND", "RECV"}]

Opposite(g, h) == end[g].chan = end[h].chan /\ end[g].side # end[h].side

Extend(f, h, v) == [x \in DOMAIN f \cup {h} |-> IF x = h THEN v ELSE f[x]]

Init ==
  /\ end = [h \in {} |-> 0]
  /\ said = [h \in {} |-> <<>>]
  /\ heard = [h \in {} |-> <<>>]

OpenEnd(h, e) ==
  /\ h \in Ends \ DOMAIN end
  /\ e.side = "SEND" => \A g \in DOMAIN end : end[g] # e
  /\ end' = Extend(end, h, e)
  /\ said' = Extend(said, h, <<>>)
  /\ heard' = Extend(heard, h, <<>>)

Say(h, m) ==
  /\ said' = [said EXCEPT ![h] = Append(@, m)]
  /\ UNCHANGED <<end, heard>>

Hear(h, p) ==
  /\ Opposite(h, p)
  /\ Len(heard[h]) < Len(said[p])
  /\ heard' = [heard EXCEPT ![h] = Append(@, said[p][Len(heard[h]) + 1])]
  /\ UNCHANGED <<end, said>>

Next ==
  \/ \E h \in Ends, e \in End : OpenEnd(h, e)
  \/ \E h \in DOMAIN end, m \in Messages : Say(h, m)
  \/ \E h, p \in DOMAIN end : Hear(h, p)

Spec == Init /\ [][Next]_chanVars
=============================================================================
