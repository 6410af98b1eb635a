------------------------------- MODULE MCFields -------------------------------
(* Requests about people, dates, types and tags at the bounds of their fields. *)
EXTENDS Integers, Sequences, FieldRules

Day(day, month, year) == [day |-> day, month |-> month, year |-> year]
LastDay == Day(31, 12, 2023)
FirstDay == Day(1, 1, 2024)
MCClocks == {<<LastDay, LastDay, LastDay>>, <<LastDay, LastDay, FirstDay>>,
             <<LastDay, FirstDay, FirstDay>>, <<FirstDay, FirstDay, FirstDay>>}
NoDay == Day(-1, -1, -1)
Days == {NoDay} \cup
  {Day(d, m, y) : d \in {0, 1, 28, 29, 30, 31, 32}, m \in {0, 1, 2, 4, 12, 13},
                  y \in {0, 1, 1900, 2000, 2023, 2024, 9999, 10000}}

Plain(core) == Text(core, 0, "space", "plain")
Short == {EmptyText, Text(0, 1, "space", "plain"), Text(0, 3, "tab", "plain"), Plain(1), Plain(85),
          Plain(127), Plain(254), Plain(255), Plain(256), Text(254, 1, "tab", "plain"),
          Text(254, 2, "space", "plain")}
Long == {EmptyText, Plain(10000), Plain(10001), Plain(100000), Plain(100001)}
Emails == {EmptyText, Text(0, 2, "tab", "plain"), Plain(9), Text(254, 0, "space", "email"),
           Text(253, 1, "tab", "email"), Text(255, 0, "space", "email")}
Phones == {Plain(64), Plain(65), Text(63, 1, "tab", "plain")}

Request(form, text, day) ==
  [form |-> form, text |-> text, day |-> day, symmetric |-> FALSE, people |-> <<>>, taken |-> FALSE]

Ann == [last_name |-> Plain(5), first_name |-> Plain(3), middle_name |-> EmptyText, email |-> EmptyText,
        phone |-> EmptyText, telegram |-> EmptyText, description |-> EmptyText, note |-> EmptyText]
AnnWith(field, texts) == {Request("person", [Ann EXCEPT ![field] = t], NoDay) : t \in texts}

PersonRequests ==
  {Request("person", [Ann EXCEPT !.last_name = l, !.first_name = f, !.middle_name = m], NoDay) :
     l \in Short, f \in Short, m \in Short}
    \cup {Request("person", Ann, day) : day \in Days}
    \cup AnnWith("email", Emails) \cup AnnWith("phone", Phones) \cup AnnWith("telegram", Short)
    \cup AnnWith("description", Long) \cup AnnWith("note", Long)
    \cup {Request("quick", [last_name |-> l, first_name |-> f], NoDay) : l \in Short, f \in Short}

DateText(name, description) == [display_name |-> name, description |-> description]
DateRequests ==
  {Request("date", DateText(Plain(1), EmptyText), day) : day \in Days \ {NoDay}}
    \cup {Request("date", DateText(name, d), Day(29, 2, 0)) : name \in Short, d \in Long}
    \cup {Request("new_date", [display_name |-> name], Day(1, 1, 2024)) : name \in Short}
    \cup {[Request("date", DateText(Plain(1), EmptyText), Day(1, 1, 0)) EXCEPT !.people = p] :
            p \in {<<"eve">>, <<"eve", "eve">>}}

TypeRequests ==
  {[Request("type", [forward_name |-> f, reverse_name |-> r], NoDay) EXCEPT !.symmetric = s] :
     f \in Short, r \in Short, s \in BOOLEAN}
TagRequests ==
  {[Request("tag", [name |-> [name EXCEPT !.folds = folds]], NoDay) EXCEPT !.taken = taken] :
     name \in Short \ {EmptyText, Text(0, 1, "space", "plain"), Text(0, 3, "tab", "plain")},
     folds \in BOOLEAN, taken \in BOOLEAN}
    \cup {Request("tag", [name |-> t], NoDay) : t \in Short}

MCRequests == PersonRequests \cup DateRequests \cup TypeRequests \cup TagRequests
=============================================================================
