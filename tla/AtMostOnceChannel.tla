------------------------ MODULE AtMostOnceChannel ------------------------
(***************************************************************************)
(* What the sealed transport promises: of the datagrams sent, in whatever  *)
(* order they arrive, each is delivered at most once and nothing else is.  *)
(***************************************************************************)
EXTENDS Naturals

VARIABLES
  offered,     \* datagrams sent so far
  delivered,   \* those the receiver has taken
  deliveries   \* how often it has taken one

channelVars == <<offered, delivered, deliveries>>

ChannelInit == offered = {} /\ delivered = {} /\ deliveries = 0

Offer ==
  /\ offered \subseteq offered'
  /\ UNCHANGED <<delivered, deliveries>>

Deliver ==
  \E d \in offered \ delivered :
    /\ delivered' = delivered \cup {d}
    /\ deliveries' = deliveries + 1
    /\ UNCHANGED offered

ChannelSpec == ChannelInit /\ [][Offer \/ Deliver]_channelVars
=============================================================================
