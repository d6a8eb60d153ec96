------------------------------- MODULE Programs -------------------------------
(* The sequential programs side by side: one of them is chosen and run, the    *)
(* variables of the others stay as they are.                                   *)
EXTENDS Integers, Sequences

CONSTANTS
    Places, Base,               \* SelectionSort
    Nibbles, Inputs,            \* Convert
    Bits, MaxLinks,             \* SortedList
    MaxRuns,                    \* DrawMe
    numFiles, entry, MaxOpen    \* ChecksumLoop

VARIABLES
    program,
    arg, digits, i, j, min, result, sortPc,                     \* SelectionSort
    mode, value, nibbles, binary, k, out, convertPc,            \* Convert
    val, next, used, head, num, new_node, marker, temp, max,    \* SortedList
    passed, added, listPc,
    privileged, runs, elements, link, file, drawFiles,          \* DrawMe
    spoiled, failed, drawPc,
    n, names, sumFiles, contents, printed, sumPc                \* ChecksumLoop

sortVars == <<arg, digits, i, j, min, result, sortPc>>
convertVars == <<mode, value, nibbles, binary, k, out, convertPc>>
listVars == <<val, next, used, head, num, new_node, marker, temp, max, passed, added, listPc>>
drawVars == <<privileged, runs, elements, link, file, drawFiles, spoiled, failed, drawPc>>
sumVars == <<n, names, sumFiles, contents, printed, sumPc>>
vars == <<program, sortVars, convertVars, listVars, drawVars, sumVars>>

Sort == INSTANCE SelectionSort WITH pc <- sortPc
Conv == INSTANCE Convert WITH i <- k, pc <- convertPc
List == INSTANCE SortedList WITH pc <- listPc
Draw == INSTANCE DrawMe WITH openFiles <- drawFiles, pc <- drawPc
Sum == INSTANCE ChecksumLoop WITH openFiles <- sumFiles, pc <- sumPc

ASSUME InstancesAssumption ==
    /\ Sort!Assumptions /\ Conv!Assumptions /\ List!Assumptions
    /\ Draw!Assumptions /\ Sum!Assumptions
    /\ 0 \in Inputs        \* the value in the other programs' runs

\* The inputs of a program that is not run are fixed.
Only(p, inputs, fixed) == IF program = p THEN inputs ELSE {fixed}

Init ==
    /\ program \in {"sort", "convert", "list", "draw", "sum"}
    /\ arg \in Only("sort", Sort!ULong, 0)
    /\ mode \in Only("convert", Conv!Modes \cup {"other"}, "other")
    /\ value \in Only("convert", Inputs, 0)
    /\ privileged \in Only("draw", BOOLEAN, FALSE)
    /\ Sort!Init /\ Conv!Init /\ List!Init /\ Draw!Init /\ Sum!Init

Next ==
    /\ \/ program = "sort" /\ Sort!Next /\ UNCHANGED <<convertVars, listVars, drawVars, sumVars>>
       \/ program = "convert" /\ Conv!Next /\ UNCHANGED <<sortVars, listVars, drawVars, sumVars>>
       \/ program = "list" /\ List!Next /\ UNCHANGED <<sortVars, convertVars, drawVars, sumVars>>
       \/ program = "draw" /\ Draw!Next /\ UNCHANGED <<sortVars, convertVars, listVars, sumVars>>
       \/ program = "sum" /\ Sum!Next /\ UNCHANGED <<sortVars, convertVars, listVars, drawVars>>
    /\ UNCHANGED program

Spec == Init /\ [][Next]_vars

\* Of each program: see its module.
SortsDigits == Sort!SortsDigits
ConvertRight == Conv!ConvertRight
AssertsPass == List!AssertsPass
KeepsAll == List!KeepsAll
NoTrash == Draw!NoTrash
SumReport == Sum!SumReport
=============================================================================
