--------------------------- MODULE MCKnowledgeGraph ---------------------------
(* Three people, a date, a tag, two types and three files; a request of every use case. *)
EXTENDS KnowledgeGraph

CONSTANTS r1, r2, ann, bob, none

MCIds == 0 .. 24
New(r) == IF r = r1 THEN 10 ELSE 20
MCNames == {"family", "work"}
MCInitialRows ==
  {Item(i, ann, "person", none) : i \in {1, 2, 3}}
    \cup {Item(4, ann, "date", none), Item(9, bob, "person", none)}
    \cup {Tag(5, ann, "family"), ItemTag(1, 5, ann)}
    \cup {RelationshipType(6, ann, FALSE), RelationshipType(14, ann, TRUE)}
    \cup {RelationshipFrom([id |-> 7, related |-> 2, direction |-> "reverse", type |-> 6], 1, ann),
          RelationshipFrom([id |-> 15, related |-> 2, direction |-> "forward", type |-> 14], 1, ann)}
    \cup {Link(4, 1, ann), File(16, ann, 1), File(17, ann, 1), File(18, ann, 4)}

Ask(op, id) ==
  [op |-> op, author |-> ann, id |-> id, tags |-> {}, create |-> {}, update |-> <<>>,
   delete |-> {}, people |-> {}, name |-> "family", symmetric |-> FALSE, file |-> 0]
To(id, related, direction) ==
  [id |-> id, related |-> related, direction |-> direction, type |-> 6]
\* The second relationship takes the place that the first has left.
Shifted ==
  <<[id |-> 15, related |-> 3, direction |-> "forward", type |-> 6],
    [id |-> 7, related |-> 2, direction |-> "reverse", type |-> 14]>>

\* Reading; creating and deleting; a tag or a type in the way of others ...
Others(r) ==
  <<Ask("get_person", 1), Ask("list_people", 0), Ask("calendar", 0), Ask("get_date", 4),
    [Ask("list_dates", 0) EXCEPT !.people = {1}, !.tags = {5}], Ask("list_dates", 0),
    Ask("create_person", New(r)), Ask("create_date", New(r)), Ask("delete_person", 1),
    Ask("delete_person", 2), Ask("delete_person", 9), Ask("delete_date", 4),
    Ask("create_type", New(r)), Ask("delete_type", 6),
    [Ask("update_type", 6) EXCEPT !.symmetric = TRUE],
    Ask("delete_tag", 5), Ask("create_tag", New(r)),
    [Ask("create_tag", New(r)) EXCEPT !.name = "work"],
    [Ask("update_tag", 5) EXCEPT !.name = "work"],
    [Ask("upload_attachment", 1) EXCEPT !.file = New(r) + 4],
    [Ask("upload_attachment", 4) EXCEPT !.file = New(r) + 4],
    [Ask("delete_attachment", 1) EXCEPT !.file = 17],
    [Ask("delete_attachment", 4) EXCEPT !.file = 18],
    [Ask("delete_attachment", 1) EXCEPT !.file = 18]>>

\* ... and the pages: a relationship dropped, reversed with another added, moved, two changed
\* in turn, added from the other end, dropped from elsewhere, asked for with oneself, twice,
\* and with a stranger.
Pages(r) ==
  <<[Ask("update_person", 2) EXCEPT !.delete = {7}],
    [Ask("update_person", 1) EXCEPT !.update = <<To(7, 2, "forward")>>,
                                    !.create = {To(New(r) + 1, 3, "forward")}, !.tags = {5}],
    [Ask("update_person", 1) EXCEPT !.update = <<To(7, 3, "forward")>>],
    [Ask("update_person", 1) EXCEPT !.update = Shifted],
    [Ask("update_person", 3) EXCEPT !.create = {To(New(r) + 2, 1, "forward"),
                                                To(New(r) + 3, 2, "reverse")}],
    [Ask("update_person", 3) EXCEPT !.delete = {7}],
    [Ask("update_person", 1) EXCEPT !.create = {To(New(r) + 1, 1, "forward")}],
    [Ask("update_person", 1) EXCEPT !.create = {To(New(r) + 1, 3, "forward"),
                                                To(New(r) + 2, 3, "reverse")}],
    [Ask("update_person", 1) EXCEPT !.create = {To(New(r) + 1, 9, "forward")}],
    [Ask("update_date", 4) EXCEPT !.people = {2, 3}, !.tags = {5}],
    [Ask("update_date", 4) EXCEPT !.people = {1, 2}]>>

\* Two requests differ in the ids of what they create only, so one order of a pair is enough.
MCAsked ==
  LET list(r) == Others(r) \o Pages(r)
  IN  {[r \in Requests |-> IF r = r1 THEN list(r1)[pair[1]] ELSE list(r)[pair[2]]] :
         pair \in {pair \in (DOMAIN list(r1)) \X (DOMAIN list(r1)) : pair[1] <= pair[2]}}
=============================================================================
