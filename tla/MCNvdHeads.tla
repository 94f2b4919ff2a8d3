----------------------------- MODULE MCNvdHeads -----------------------------
(* Instances of NvdHeads for TLC: an operating system and an application.   *)
EXTENDS NvdHeads

CONSTANTS os, app

MCMatchers == <<[head |-> os, version |-> 1], [head |-> app, version |-> 0]>>

UpTo(head, v) == Match(head, TRUE, NoBound, NoBound, NoBound, v, 0)
Through(head, v, w) == Match(head, TRUE, NoBound, v, w, NoBound, 0)
Exactly(head, v) == Match(head, TRUE, NoBound, NoBound, NoBound, NoBound, v)
RunsOn(head) == Match(head, FALSE, NoBound, NoBound, NoBound, NoBound, 0)

\* The first is taken off the application, the second is moved to it, the
\* third is there to make a list longer than MaxResults.
MCRecordsOf ==
  [c \in Cves |->
    CASE c = 1 -> {<<UpTo(os, 2), Exactly(app, 0)>>, <<RunsOn(os), Through(os, 0, 1)>>}
      [] c = 2 -> {<<RunsOn(os), UpTo(app, 1)>>}
      [] c = 3 -> {<<UpTo(app, 2)>>}]
=============================================================================
