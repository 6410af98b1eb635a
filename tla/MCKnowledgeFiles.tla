-------------------------- MODULE MCKnowledgeFiles --------------------------
(* Small instances of KnowledgeFiles: a person with a photo and an attachment. *)
EXTENDS KnowledgeFiles, TLC

CONSTANTS r1, r2, r3, photo, notes, ann, day

MCInitLinks == {[file |-> photo, item |-> ann, kind |-> "person_photo"],
                [file |-> notes, item |-> ann, kind |-> "attachment"]}
MCRank == [f \in Stored |-> IF f = notes THEN 1 ELSE 2] @@ [r \in Request |->
             CASE r = r1 -> 3 [] r = r2 -> 4 [] OTHER -> 5]
AllOperations == Operation
WriteOperations == Operation \ {"get_file_content", "rename_attachment"}
AllFaults == Fault
=============================================================================
