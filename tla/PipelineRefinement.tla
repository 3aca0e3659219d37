------------------------- MODULE PipelineRefinement -------------------------
(***************************************************************************)
(* The pipeline implements LineAccounting: the outstanding lines are those *)
(* in the aggregator's hand, in the second channel, in the parser, in the  *)
(* first channel and in the listener, in that order.                       *)
(***************************************************************************)
EXTENDS Pipeline, SequencesExt

CONSTANT MaxLines      \* lines one datagram may hold

ASSUME LinesAssumption ==
    /\ MaxLines \in Nat
    /\ \A shape \in Shapes : Len(shape) <= MaxLines

Numbers(seq) == [i \in DOMAIN seq |-> seq[i].n]

\* A message counts as outstanding until STAT_RECEIVED was processed for it.
InHand == IF pc["aggregator"] = "received" THEN <<message.n>> ELSE <<>>

\* The datagram is outstanding until chan_send has copied it to the channel.
ToSend == IF pc["listener"] = "send" THEN datagram ELSE <<>>

Outstanding ==
    InHand \o Numbers(parser_to_aggregator) \o Numbers(lines)
           \o Numbers(FlattenSeq(network_listener_to_parser)) \o Numbers(ToSend)

Accounting == INSTANCE LineAccounting WITH
    pending  <- Outstanding,
    counted  <- stats["received"],
    stopping <- g_exit_flag,
    closed   <- pc["main"] = "disposed"

\* Every line accepted off the socket is counted once and in order, or was given
\* up after SIGINT; none is lost, duplicated or overtaken on the way through the
\* two channels, and the process ends with nothing outstanding.
LinesAccounted == Accounting!Spec
=============================================================================
