------------------------- MODULE KnowledgeFileStore -------------------------
(***************************************************************************)
(* What the private file storage of the Knowledge section promises to a    *)
(* client: every operation takes effect as a whole or not at all, and the  *)
(* content of a listed file can always be read.  Where the failure of a    *)
(* call is not told to its transaction, less is promised: part of it may   *)
(* stay.  KnowledgeFiles, the model of the request handlers, is shown to   *)
(* implement it.                                                           *)
(***************************************************************************)
CONSTANTS Item,       \* people and dates
          Person,     \* the items that may have a photo
          File,       \* file identifiers
          InitLinks,  \* the files attached initially
          Untold      \* failed calls may be kept in part

VARIABLES items,      \* items that exist
          links,      \* files attached to items: [file, item, kind]
          readable    \* files whose content the server can stream

vars == <<items, links, readable>>

Kind == {"attachment", "person_photo"}
Link == [file : File, item : Item, kind : Kind]
FilesOf(ls) == {l.file : l \in ls}

Init == /\ items = Item
        /\ links = InitLinks
        /\ readable = FilesOf(InitLinks)

\* A new attachment (or editor image) of an item.
Attach(f, i) ==
  /\ i \in items
  /\ f \notin FilesOf(links)
  /\ links' = links \cup {[file |-> f, item |-> i, kind |-> "attachment"]}
  /\ items' = items

\* The photo of a person changes in one step: the old one goes, the new one comes.
SetPhoto(f, i) ==
  /\ i \in items \cap Person
  /\ f \notin FilesOf(links)
  /\ links' = {l \in links : ~(l.item = i /\ l.kind = "person_photo")}
              \cup {[file |-> f, item |-> i, kind |-> "person_photo"]}
  /\ items' = items

\* One file goes.
Remove(l) == /\ l \in links
             /\ links' = links \ {l}
             /\ items' = items

\* An item goes with all its files.
RemoveItem(i) == /\ i \in items
                 /\ items' = items \ {i}
                 /\ links' = {l \in links : l.item # i}

\* Some files of one item go, and the item stays: what a failed deletion leaves.
RemoveSome(i) ==
  /\ \E gone \in SUBSET {l \in links : l.item = i} : links' = links \ gone
  /\ items' = items

\* Files keep their contents, and a new file has one, unless its upload failed.
Readable ==
  LET old == readable \cap FilesOf(links')
      new == FilesOf(links') \ FilesOf(links)
  IN readable' = old \cup new \/ (Untold /\ readable' = old)

Next == /\ \/ \E f \in File, i \in Item : Attach(f, i) \/ SetPhoto(f, i)
           \/ \E l \in links : Remove(l)
           \/ \E i \in Item : RemoveItem(i) \/ (Untold /\ RemoveSome(i))
        /\ Readable

Spec == Init /\ [][Next]_vars
=============================================================================
