----------------------------- MODULE MCPipeline -----------------------------
(***************************************************************************)
(* Pipeline for TLC, with every file of at most MaxLines lines.  The first  *)
(* line is the header, whose content does not matter.                       *)
(***************************************************************************)
EXTENDS Pipeline

CONSTANTS MaxLines, MaxReports

MCFiles ==
    {<< >>} \cup
    UNION {{<<Short>> \o lines : lines \in [1 .. n -> -1 .. MaxReports]} :
                n \in 0 .. MaxLines - 1}
=============================================================================
