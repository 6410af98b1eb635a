---------------------------- MODULE MCSaves ----------------------------
(* Three requests about one resume, or one of them about a resume it creates. *)
EXTENDS ResumeSaves

CONSTANTS p1, p2, p3

MCResumeId == {1, 2}
MCCall == {p1, p2, p3}
MCStored == [r \in {1} |-> [title |-> "a", content |-> "a"]]
Ask(op, id, title, content) == [op |-> op, id |-> id, title |-> title, content |-> content]
MCOperation ==
  {Ask("update", 1, "b", "b"), Ask("update", 1, "a", "c"), Ask("update", 1, "d", "a"),
   Ask("delete", 1, "a", "a"), Ask("get", 1, "a", "a"), Ask("create", 2, "a", "a"),
   Ask("update", 2, "a", "b")}
=============================================================================
