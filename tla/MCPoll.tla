------------------------------- MODULE MCPoll --------------------------------
(* Three configurations, so that a complete one can follow an incomplete    *)
(* one and a short period a long one; two power losses.  Their time zones   *)
(* are those of India, Newfoundland (in winter) and Central Europe.         *)
EXTENDS Poll

MCOffset == <<330, -210, 60>>
=============================================================================
