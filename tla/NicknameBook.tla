---------------------------- MODULE NicknameBook ----------------------------
(***************************************************************************)
(* What nickname assignment promises to the rest of the system, whatever   *)
(* the interleaving of the requests that assign nicknames: a book in which *)
(* each participant has at most one nickname, no two participants of the   *)
(* whole service share one, and what is written is never changed or        *)
(* erased.  GroupService is shown to implement it.                         *)
(***************************************************************************)
CONSTANTS Participants, Names

VARIABLE book    \* the set of [part, name] entries written so far

Entries == [part : Participants, name : Names]

\* No participant has two nicknames and no nickname has two owners.
IsAssignment(entries) ==
  \A a, b \in entries : a.part = b.part \/ a.name = b.name => a = b

Init == book = {}

\* Nicknames are added, possibly for several participants at once.
Assign ==
  /\ book \subseteq book'
  /\ book' \subseteq Entries
  /\ IsAssignment(book')

Spec == Init /\ [][Assign]_book
=============================================================================
