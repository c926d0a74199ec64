------------------------- MODULE MCRdsGroupDecoder -------------------------
(* Two stations and two signals under way.  The stations send a label of   *)
(* two segments, or a text of two fragments, or the first of each.         *)
EXTENDS RdsGroupDecoder

Sent(kind, segs) == [kind : {kind}, seg : segs]
MCProgrammes == {Sent("name", {0, 1}), Sent("text", {0, 1}),
                 Sent("name", {0}) \cup Sent("text", {0})}
============================================================================
