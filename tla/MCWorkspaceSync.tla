-------------------------- MODULE MCWorkspaceSync --------------------------
(* Instances of WorkspaceSync for TLC: documents and files of Drive, whose   *)
(* date may move with an edit; a message, whose date is fixed; and an event  *)
(* of the calendar, which is listed within time bounds.                      *)
EXTENDS WorkspaceSync

CONSTANTS m1, d1, d2, e1

TwoServices == <<"gmail", "google_calendar">>
OnlyGmail == <<"gmail">>
OnlyDrive == <<"google_drive">>
Filtered == {"gmail"}
Modified == {"google_drive"}
Moved == {"google_calendar"}

Owner == [i \in Items |-> IF i = e1 THEN "google_calendar"
                          ELSE IF i = m1 THEN "gmail" ELSE "google_drive"]
\* d1 is a text document, d2 a file without text.
Source == [i \in Items |-> IF i = m1 THEN {"fetch"}
                           ELSE IF i = d1 THEN {"page", "fetch"} ELSE {"page"}]

=============================================================================
