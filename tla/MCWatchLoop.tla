----------------------------- MODULE MCWatchLoop -----------------------------
(* Properties of WatchLoop, for its runs.                                  *)
EXTENDS WatchLoop

\* A base place that has moved is rebuilt at last, whatever is lost or fails, for as
\* long as the command runs. A place that the service cannot read is followed by
\* polling once nothing is left to stream; until then it may wait. Once the handler of
\* a late frame has rebuilt beside the poll, an older build may be what is left: the
\* poll has then built the version, and takes it for deployed.
Follows ==
    <>[](\/ phase = "end"
         \/ \A e \in targets :
              \/ shipped[e] = head[e]
              \/ overlapped /\ phase = "poll" /\ polled[e] = head[e]
              \/ /\ phase = "stream" /\ watch[e].unreadable
                 /\ \E o \in Entries : ~watch[o].unreadable)

\* Ctrl-C ends the loop that hears it.
InterruptEnds ==
    <>[](("stream" \in stopped => phase # "stream") /\ ("poll" \in stopped => phase = "end"))

=============================================================================
