------------------------- MODULE CommandPipelineMC -------------------------
(* CommandPipeline over three lines, of which tr makes two.  The third has *)
(* quotation marks, and nothing else that tr deletes.                      *)
EXTENDS CommandPipeline

MCLines == 1..3
MCStrip == <<2, 1, 2>>
MCShellStrip == <<2, 1, 3>>
=============================================================================
