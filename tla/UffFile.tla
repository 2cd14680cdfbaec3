------------------------------- MODULE UffFile -------------------------------
(***************************************************************************)
(* bestsens::UffFile (src/uffWriter.cpp): a writer of UFF data sets on an  *)
(* OutputFile without app.  A data set is a header, values in lines of     *)
(* four, and an end mark.  Where the lines end goes by samples_written,    *)
(* which belongs to the object, not to the file or the data set; of the    *)
(* text in the file, the model keeps the last line.                        *)
(***************************************************************************)
EXTENDS OutputFile

CONSTANT Lengths  \* of the vectors appendData() is called with

ASSUME UffFileAssumption == Lengths \subseteq Nat

PerLine == 4

Uffs == Processes \ Appending

VARIABLES
  built,    \* the constructor has returned
  samples,  \* samples_written modulo 4
  column,   \* the values on the last line of the open file
  behind,   \* the values that samples was ahead when this line was begun
  mixed     \* the end mark is on a line with values

uffVars == <<built, samples, column, behind, mixed>>

InitUff ==
  /\ built = [p \in Uffs |-> FALSE]
  /\ samples = [p \in Uffs |-> 0]
  /\ column = [p \in Uffs |-> 0]
  /\ behind = [p \in Uffs |-> 0]
  /\ mixed = [p \in Uffs |-> FALSE]

\* The object is not in a call.
Ready(p) == built[p] /\ pc[p] = "idle"

\* What is written on a stream that is not open is lost.
Writes(p) == stream[p] # NoFile

\* The file goes on at the beginning of a line, with this many samples counted.
NewLine(p, count) ==
  /\ column' = [column EXCEPT ![p] = 0]
  /\ behind' = [behind EXCEPT ![p] = count]

SameLine == UNCHANGED <<column, behind>>

\* The header ends with a newline.  It is written behind an end mark or into
\* a new file; behind values it would begin on their line.
WriteHeader(p) ==
  /\ Ready(p)
  /\ IF Writes(p)
     THEN NewLine(p, samples[p])
     ELSE SameLine
  /\ UNCHANGED <<built, samples, mixed>>

\* Mutant: a line ends before the fourth value, not behind it.
AppendDataLate(p, n) ==
  /\ Ready(p)
  /\ samples' = [samples EXCEPT ![p] = (@ + n) % PerLine]
  /\ IF Writes(p) /\ samples[p] + n > PerLine
     THEN /\ column' = [column EXCEPT ![p] = (samples[p] + n) % PerLine]
          /\ behind' = [behind EXCEPT ![p] = 0]
     ELSE /\ column' = [column EXCEPT ![p] = IF Writes(p) THEN @ + n ELSE @]
          /\ UNCHANGED behind
  /\ UNCHANGED <<built, mixed>>

AppendData(p, n) ==
  /\ Ready(p)
  /\ samples' = [samples EXCEPT ![p] = (@ + n) % PerLine]
  /\ IF Writes(p) /\ samples[p] + n >= PerLine
     THEN /\ column' = [column EXCEPT ![p] = (samples[p] + n) % PerLine]
          /\ behind' = [behind EXCEPT ![p] = 0]
     ELSE /\ column' = [column EXCEPT ![p] = IF Writes(p) THEN @ + n ELSE @]
          /\ UNCHANGED behind
  /\ UNCHANGED <<built, mixed>>

\* A newline first, when samples_written says that a line has been begun.
EndFile(p) ==
  /\ Ready(p)
  /\ IF Writes(p)
     THEN /\ mixed' = [mixed EXCEPT ![p] = column[p] # 0 /\ samples[p] = 0]
          /\ NewLine(p, samples[p])
     ELSE SameLine /\ UNCHANGED mixed
  /\ UNCHANGED <<built, samples>>

\* The constructor and updateFilename() are those of the file: what they do
\* to the last line.  The constructor throws when the file is not open then.
FileChanges(p, count) ==
  /\ built' = [built EXCEPT ![p] = @ \/ stream'[p] # NoFile]
  /\ samples' = [samples EXCEPT ![p] = count]
  /\ NewLine(p, IF stream'[p] = NoFile THEN 0 ELSE count)
  /\ mixed' = [mixed EXCEPT ![p] = FALSE]

UpdateUff(p) ==
  IF stream'[p] # stream[p] THEN FileChanges(p, samples[p]) ELSE UNCHANGED uffVars

ClearUff(p) ==
  /\ Ready(p)
  /\ ClearFile(p)
  /\ FileChanges(p, 0)

WriteUff(p) ==
  /\ \/ WriteHeader(p) \/ EndFile(p)
     \/ \E n \in Lengths : AppendData(p, n)
  /\ UNCHANGED vars

-----------------------------------------------------------------------------
(* The lines of the open file have four values each, but for the last of a *)
(* data set and for the first of one that was begun, or of a file that was *)
(* opened, while samples_written was no multiple of four: it goes on from  *)
(* the file before, and from values written while no file was open.  The   *)
(* end mark has a line of its own in any case.                             *)
DataLines ==
  \A p \in Uffs :
    /\ column[p] + (IF Writes(p) THEN behind[p] ELSE samples[p]) = samples[p]
    /\ ~mixed[p]
=============================================================================
