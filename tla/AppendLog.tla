------------------------------ MODULE AppendLog ------------------------------
(***************************************************************************)
(* The append-only files of the program (the journal and its summaries,    *)
(* the forward record, the promotion ledger): one entry per line, written  *)
(* with its newline at the end.  A writer that is killed leaves a line     *)
(* without its newline, whole or not, and the next entry lands on it.      *)
(***************************************************************************)
EXTENDS Naturals, Sequences, SequencesExt

EmptyLog == [lines |-> <<>>, open |-> FALSE]

\* A line no reader can parse.
Garbled == [garbled |-> TRUE]
Line(e) == [garbled |-> FALSE, entry |-> e]

\* The entry and its newline reach the file.
Appended(log, e) ==
  IF log.open
  THEN [lines |-> Append(Front(log.lines), Garbled), open |-> FALSE]
  ELSE [lines |-> Append(log.lines, Line(e)), open |-> FALSE]

\* What a kill in the middle of the append may leave.
Torn(log, e) ==
  {log, Appended(log, e)} \cup
  {[lines |-> Append(IF log.open THEN Front(log.lines) ELSE log.lines, l), open |-> TRUE] :
     l \in {Garbled} \cup (IF log.open THEN {} ELSE {Line(e)})}

\* Mutant of Entries: reading stops at the first line that cannot be parsed.
EntriesPrefix(log) ==
  LET good == SelectInSeq(log.lines, LAMBDA l : l.garbled)
      upto == IF good = 0 THEN Len(log.lines) ELSE good - 1
  IN  [i \in 1..upto |-> log.lines[i].entry]

\* A reader that skips what it cannot parse, and one that does not.
Entries(log) ==
  FoldLeft(LAMBDA read, l : IF l.garbled THEN read ELSE Append(read, l.entry),
           <<>>, log.lines)
Readable(log) == \A i \in DOMAIN log.lines : ~log.lines[i].garbled

================================================================================
