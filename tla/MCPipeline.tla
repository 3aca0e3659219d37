----------------------------- MODULE MCPipeline -----------------------------
(* Instances of Pipeline for TLC. *)
EXTENDS PipelineRefinement

\* A datagram without lines, and one with a line that is refused and one that parses.
MCShapes == {<<>>, <<FALSE, TRUE>>}

\* A time measured over the end of a second and one measured within a second.  With Wrap
\* = 3 both give the same total, so that the totals add no states.
MCElapsed == {-1, 2}
=============================================================================
