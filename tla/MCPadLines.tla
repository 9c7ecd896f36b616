----------------------------- MODULE MCPadLines -----------------------------
(* Instances of PadLines.  Two: a source text beside a frame.  One: an      *)
(* object that opens now a source text, now a journal; what the windows of  *)
(* two objects have in common is only the line inserted last.               *)
EXTENDS PadLines

\* SrcText: its lines are requested, and it is told when the user closes it.
source  == [use |-> "lines", attributes |-> {"USERCLOSE"}, line |-> {{}}]
\* Journal: lines are made to be requested.
journal == [use |-> "create", attributes |-> {}, line |-> {{}}]
\* Frame: gaps are made for new lines, and spied ones are not cut.
frame   == [use |-> "gap", attributes |-> {}, line |-> {{}, {"DONT_CUT"}}]

MCTwo == {"src", "frm"}
MCTwoKinds == [o \in MCTwo |-> IF o = "src" THEN {source} ELSE {frame}]

MCOne == {"obj"}
MCOneKinds == [o \in MCOne |-> {source, journal}]

MCText == {"x"}
=============================================================================
