--------------------------- MODULE MCLists ---------------------------
(* Five items that differ in name, day and tags, one of them created on the way. *)

Row(id, name, stamp, day, words, tags, people) ==
  [id |-> id, name |-> name, stamp |-> stamp, day |-> day, words |-> words, tags |-> tags,
   people |-> people]

MCRows == {Row(1, 2, 0, 9, {"ann"}, {"a", "b"}, {"eve"}), Row(2, 1, 0, 9, {"ann", "bob"}, {"a"}, {}),
           Row(3, 2, 0, 3, {}, {"a", "b"}, {"eve"}), Row(4, 3, 0, 9, {"bob"}, {}, {"eve"}),
           Row(5, 4, 0, 1, {"ann"}, {"b"}, {})}
MCNewRows == {Row(6, 2, 0, 4, {"ann"}, {"a"}, {})}

Ask(kind, sort, size) ==
  [kind |-> kind, sort |-> sort, search |-> " ", tags |-> {}, person |-> "none", size |-> size]

MCAsked ==
  {Ask("person", sort, size) : sort \in {"updated_newest", "updated_oldest", "name_asc", "name_desc"},
                               size \in {1, 2}}
    \cup {Ask("date", sort, 2) : sort \in {"date_asc", "date_desc", "updated_newest"}}
    \cup {[Ask("person", "name_asc", 2) EXCEPT !.search = "ann"],
          [Ask("person", "name_asc", 2) EXCEPT !.tags = {"a", "b"}],
          [Ask("date", "date_asc", 2) EXCEPT !.person = "eve", !.tags = {"b"}],
          [Ask("date", "date_asc", 2) EXCEPT !.search = "zoe"],
          Ask("resume", "updated_newest", 2)}
=============================================================================
