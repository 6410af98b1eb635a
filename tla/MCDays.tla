-------------------------------- MODULE MCDays --------------------------------
(* Days at the turns of a month and of a year. *)
Day(day, month, year) == [day |-> day, month |-> month, year |-> year]
Row(id, kind, name, day, month, year) ==
  [id |-> id, kind |-> kind, name |-> name, day |-> day, month |-> month, year |-> year]
MCDetails ==
  {Row(1, "memorableDate", 2, 31, 12, 0), Row(2, "memorableDate", 1, 1, 1, 1999),
   Row(3, "birthday", 1, 1, 1, 0), Row(4, "birthday", 1, 31, 12, 2001), Row(5, "birthday", 2, 29, 2, 2000),
   Row(6, "memorableDate", 1, 1, 1, 0), Row(7, "birthday", 1, 15, 2, 0)}
MCReferences ==
  {Day(31, 12, 2023), Day(1, 1, 2024), Day(28, 2, 2023), Day(30, 11, 2024)}
MCLinks == {<<1, 3>>, <<1, 4>>, <<6, 5>>}
MCPersonNames == [id \in {3, 4, 5, 7} |-> IF id = 5 THEN 2 ELSE 1]
=============================================================================
