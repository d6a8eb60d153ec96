---------------------------- MODULE ChecksumReport ----------------------------
(* What the checksum program promises: every file of the directory is worked   *)
(* on once, and one report comes out, after the last file is finished, that    *)
(* holds an acceptable answer for every file.  WorkPool implements it.         *)
EXTENDS Naturals

CONSTANTS File,             \* the regular files of the directory
          Answers(_)        \* Answers(f): what the report may say of file f

VARIABLES finished,         \* the files that have been worked on
          report            \* <<>>, then the answers

Init == finished = {} /\ report = <<>>

Finish(f) == /\ f \notin finished
             /\ finished' = finished \cup {f}
             /\ UNCHANGED report

Report == /\ finished = File
          /\ report' \in [File -> UNION {Answers(f) : f \in File}]
          /\ \A f \in File : report'[f] \in Answers(f)
          /\ UNCHANGED finished

Next == Report \/ \E f \in File : Finish(f)

Spec == Init /\ [][Next]_<<finished, report>>
=============================================================================
