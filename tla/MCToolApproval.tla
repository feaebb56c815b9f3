--------------------------- MODULE MCToolApproval ---------------------------
(* Instance of ToolApproval for TLC: the calls that tell the verdicts apart. *)
EXTENDS ToolApproval

CONSTANTS s1, s2

MCSessions == {s1, s2}

EditFile == [class |-> "Restricted", write |-> TRUE, denied |-> FALSE,
             destructive |-> FALSE]
EditDenied == [EditFile EXCEPT !.denied = TRUE]
EditDestructive == [EditFile EXCEPT !.destructive = TRUE]

MCCalls == {EditFile, EditDenied, EditDestructive}
FewCalls == {EditFile, EditDestructive}
=============================================================================
