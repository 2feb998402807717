--------------------------- MODULE MCBufferHistory ---------------------------
(***************************************************************************)
(* BufferHistory on a small instance: two or three texts, a history of two *)
(* or three steps.                                                         *)
(***************************************************************************)
EXTENDS BufferHistory, TLC

CONSTANTS a, b, c

MCTexts == {a, b, c}
TwoTexts == {a, b}
OneSetting == {"utf8"}
TwoSettings == {"utf8", "utf16"}

\* The state without disk_revision, which no guard reads: the runs that do not check
\* NeverOlder need not tell states apart by it.
WithoutDiskRevision ==
  <<text, text_revision, step, lo, hi, undo_idx, clean_change_id, new_file, load,
    settings, pending_save, jobs, disk, external, foreign>>
=============================================================================
