-------------------------- MODULE DatabaseContents --------------------------
(***************************************************************************)
(* What the database file promises whoever opens it: its content changes   *)
(* by one commit at a time, or as a whole to a content that this database, *)
(* or one that a backup was taken of, has had.  restore_sqlite_backup      *)
(* promises the second: "the destination is never partially written".      *)
(***************************************************************************)
CONSTANTS Writes, NoDatabase

VARIABLES
  content,   \* the writes an opener finds, or NoDatabase
  had        \* every content this or a backed-up database has had

Create ==
  /\ content = NoDatabase
  /\ content' = {}
  /\ had' = had \cup {content'}

Commit(w) ==
  /\ content # NoDatabase
  /\ content' = content \cup {w}
  /\ had' = had \cup {content'}

Replace ==
  /\ content' \in had
  /\ UNCHANGED had

\* A backup of another database arrives.
Import ==
  /\ \E c \in SUBSET Writes : had' = had \cup {c}
  /\ UNCHANGED content

Init == content = NoDatabase /\ had = {}

Next == Create \/ Replace \/ Import \/ \E w \in Writes : Commit(w)

Spec == Init /\ [][Next]_<<content, had>>

=============================================================================
