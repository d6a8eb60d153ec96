----------------------------- MODULE ChecksumLoop -----------------------------
(* assignment4/problem_2.c: one thread goes through the entries of a directory *)
(* and prints the checksum of each regular file.  A file that has been opened  *)
(* is never closed.                                                            *)
EXTENDS Integers, FiniteSets

CONSTANTS numFiles,     \* what scandir found
          entry,        \* what each entry is, see Kinds
          MaxOpen       \* how many files the process can have open

\* "cut": the file is shortened before it is read; "wraps", "long", "negative": its
\* length does not fit in the int fileLength, which becomes 0, a part of it, or a
\* negative number; "other": not a regular file.
Kinds == {"good", "empty", "noaccess", "cut", "wraps", "long", "negative", "other"}
Entries == 0 .. numFiles - 1

Assumptions == numFiles \in Nat /\ entry \in [Entries -> Kinds] /\ MaxOpen \in Nat

Regular == {f \in Entries : entry[f] # "other"}

VARIABLES
    n,              \* the loop variable
    names,          \* how many file names are still allocated
    openFiles,      \* how many files are open
    contents,       \* whether the buffer of the current file was allocated
    printed,        \* what has been printed of each file
    pc              \* where main is

vars == <<n, names, openFiles, contents, printed, pc>>

Init ==
    /\ n = 0
    /\ names = 0
    /\ openFiles = 0
    /\ contents = FALSE
    /\ printed = <<>>
    /\ pc = "next"

Crc(f) == IF entry[f] = "empty" THEN 0 ELSE f + 1
Prefix(f) == numFiles + f + 1   \* the checksum of only the first bytes of file f
Garbage == -1                   \* that of a buffer that was only partly filled
AccessError == -2

PrintLine(answer) ==
    printed' = [f \in DOMAIN printed \cup {n} |-> IF f = n THEN answer ELSE printed[f]]

-----------------------------------------------------------------------------
(* The loop.                                                                 *)

Skip ==
    /\ pc = "next"
    /\ n < numFiles /\ n \notin Regular
    /\ n' = n + 1
    /\ UNCHANGED <<names, openFiles, contents, printed, pc>>

\* malloc of the file name; without it main returns.
Name ==
    /\ pc = "next"
    /\ n < numFiles /\ n \in Regular
    /\ \/ names' = names + 1 /\ pc' = "open"
       \/ pc' = "error" /\ UNCHANGED names
    /\ UNCHANGED <<n, openFiles, contents, printed>>

\* Mutant: after an access error the file is looked at all the same.
MutOpen ==
    /\ pc = "open"
    /\ \/ /\ entry[n] = "noaccess" \/ openFiles >= MaxOpen
          /\ PrintLine(AccessError)
          /\ pc' = "size"
          /\ UNCHANGED <<n, openFiles>>
       \/ /\ ~(entry[n] = "noaccess" \/ openFiles >= MaxOpen)
          /\ openFiles' = openFiles + 1
          /\ pc' = "size"
          /\ UNCHANGED <<n, printed>>
    /\ UNCHANGED <<names, contents>>

\* fopen.  A file that is refused keeps its name allocated.
Open ==
    /\ pc = "open"
    /\ \/ /\ entry[n] = "noaccess" \/ openFiles >= MaxOpen
          /\ PrintLine(AccessError)
          /\ n' = n + 1
          /\ pc' = "next"
          /\ UNCHANGED openFiles
       \/ /\ ~(entry[n] = "noaccess" \/ openFiles >= MaxOpen)
          /\ openFiles' = openFiles + 1
          /\ pc' = "size"
          /\ UNCHANGED <<n, printed>>
    /\ UNCHANGED <<names, contents>>

\* What the int fileLength holds of the length ftell returns, a long.
FileLength(f) ==
    CASE entry[f] \in {"empty", "wraps"} -> "zero"
      [] entry[f] = "negative" -> "negative"
      [] OTHER -> "positive"

\* fseek and ftell, and the malloc of the buffer, whose failure is only reported.
\* A negative length is, as a size_t, one no malloc can satisfy.
Size ==
    /\ pc = "size"
    /\ \/ /\ FileLength(n) = "zero"
          /\ PrintLine(0)
          /\ names' = names - 1
          /\ n' = n + 1
          /\ pc' = "next"
          /\ UNCHANGED contents
       \/ /\ FileLength(n) # "zero"
          /\ contents' \in IF FileLength(n) = "negative" THEN {FALSE} ELSE BOOLEAN
          /\ pc' = "read"
          /\ UNCHANGED <<n, names, printed>>
    /\ UNCHANGED openFiles

\* The checksum of the fileLength bytes fread was asked for.
BufferCrc(f) ==
    CASE entry[f] = "long" -> Prefix(f)
      [] entry[f] = "cut" -> Garbage
      [] OTHER -> Crc(f)

\* fread, crc32 and the line.  fread may return 0; without a buffer it does, or
\* the process crashes.
Sum ==
    /\ pc = "read"
    /\ \/ /\ contents
          /\ PrintLine(BufferCrc(n))
          /\ names' = names - 1
          /\ n' = n + 1
          /\ pc' = "next"
       \/ /\ pc' = "error"
          /\ UNCHANGED <<n, names, printed>>
       \/ /\ ~contents
          /\ pc' = "crashed"
          /\ UNCHANGED <<n, names, printed>>
    /\ UNCHANGED <<openFiles, contents>>

\* The list is released: free gets fileList[n], past the end, numFiles times.
Release ==
    /\ pc = "next"
    /\ n = numFiles
    /\ \/ pc' = "exited"
       \/ numFiles > 0 /\ pc' = "crashed"
    /\ UNCHANGED <<n, names, openFiles, contents, printed>>

Next == Skip \/ Name \/ Open \/ Size \/ Sum \/ Release

-----------------------------------------------------------------------------
(* Properties.                                                               *)

\* What the requirements say is printed of file f: its checksum, or that it cannot
\* be accessed.
Required(f) == IF entry[f] = "noaccess" THEN AccessError ELSE Crc(f)

\* The files before f that can be opened hold all the descriptors.
Openable(f) == entry[f] \notin {"other", "noaccess"}
Exhausted(f) == Cardinality({g \in Entries : g < f /\ Openable(g)}) >= MaxOpen

\* What may be printed of file f: what is required, and, as far as the code falls
\* short of that, an access error if the files before it hold all the descriptors, and
\* the checksum of the bytes it takes for the file's.
Answers(f) ==
    {Required(f)}
    \cup (IF Exhausted(f) THEN {AccessError} ELSE {})
    \cup (IF entry[f] = "wraps" THEN {0} ELSE {})
    \cup (IF entry[f] \in {"long", "cut"} THEN {BufferCrc(f)} ELSE {})

\* Every regular file before n has its line, in the report of ChecksumReport.
SumOf == INSTANCE ChecksumReport WITH
    File <- Regular,
    Answers <- Answers,
    finished <- {f \in Regular : f < n},
    report <- IF n = numFiles /\ pc # "next" THEN printed ELSE <<>>

\* The program prints what ChecksumReport allows: each regular file is looked at
\* once, in turn, and a report that is complete has an answer of Answers(f) for file f,
\* never the one of a file that was opened, or refused, before it.
SumReport == SumOf!Spec

\* problem_2.c:5: of each file that can be read its own checksum is printed, and the
\* others are inaccessible.
RequiredLines == \A f \in DOMAIN printed : printed[f] = Required(f)
=============================================================================
