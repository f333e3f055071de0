------------------------------- MODULE Journal -------------------------------
(***************************************************************************)
(* How the server's lines are written (crates/api/src/telemetry.rs).       *)
(* Every event is formatted into a line for a RedactingWriter of its own,  *)
(* which has it in pieces of any size, masks what its fields' names say is *)
(* secret, and hands it to the standard output that all of them share.     *)
(*                                                                         *)
(* A line is a JSON value, which is told by its leaves: each is a text at  *)
(* a path, the fields and the places in lists that lead to it.  As a text  *)
(* it is cut in two parts at most, and ended by a newline.                 *)
(***************************************************************************)
EXTENDS Integers, Sequences, FiniteSets, SequencesExt, FiniteSetsExt

CONSTANTS Thread,      \* what logs at once
          Line,        \* the leaves of the lines that are formatted
          Sensitive,   \* the names of fields with one of SENSITIVE in them
          MaxLines     \* bound: lines

Mask    == "***"
Newline == [kind |-> "newline"]
End     == 3                         \* the last of a line's pieces, its newline
Blank   == [kind |-> "blank"]
Dropped == [kind |-> "dropped"]      \* "line could not be parsed and was dropped"
Value(leaves) == [kind |-> "value", leaves |-> leaves]

\* A place in a list is a step as well, and no field's name.
ASSUME JournalAssumption ==
    /\ IsFiniteSet(Thread) /\ MaxLines \in Nat
    /\ \A line \in Line : \A leaf \in line : leaf.path \in Seq(STRING) /\ leaf.text \in STRING

VARIABLES lines,     \* history: the lines that were formatted
          writer,    \* thread -> the line, what is still to come of it, what the writer has of it, and
                     \* what it is about to put out
          out,       \* the standard output, text by text
          flushed    \* history: a writer was flushed amid a line

journalVars == <<lines, writer, out, flushed>>

-----------------------------------------------------------------------------
IsSensitive(field) == field \in Sensitive

\* What is below a field with such a name is a mask, and no deeper.
Secrets(path) == {i \in DOMAIN path : IsSensitive(path[i])}

Masked(leaf) ==
    IF Secrets(leaf.path) = {} THEN leaf
    ELSE [path |-> SubSeq(leaf.path, 1, Min(Secrets(leaf.path))), text |-> Mask]

RedactValue(line) == Value({Masked(leaf) : leaf \in line})

\* What is no whole line does not parse, and is not let out.
BadRedactLine(line, parts) ==
    CASE parts = <<>> -> Blank [] parts = <<1, 2>> -> RedactValue(line) [] OTHER -> Value(line)

RedactLine(line, parts) ==
    CASE parts = <<>> -> Blank [] parts = <<1, 2>> -> RedactValue(line) [] OTHER -> Dropped

-----------------------------------------------------------------------------
Idle(t) == writer[t].coming = <<>> /\ writer[t].pending = <<>> /\ writer[t].todo = <<>>

\* A writer is made for the event, and the event formatted.
Format(t, line) ==
    /\ Len(lines) < MaxLines /\ Idle(t)
    /\ lines' = Append(lines, line)
    /\ writer' = [writer EXCEPT ![t] = [line |-> line, coming |-> <<1, 2, End>>,
                                        pending |-> <<>>, todo |-> <<>>]]
    /\ UNCHANGED <<out, flushed>>

\* write: the pieces are kept until there is a newline.  Two writes to the output are then made.
Write(t, n) ==
    LET w == writer[t] IN
    /\ w.todo = <<>> /\ n \in DOMAIN w.coming
    /\ writer' = [writer EXCEPT
          ![t] = IF w.coming[n] = End
                 THEN [w EXCEPT !.coming = <<>>, !.pending = <<>>,
                                !.todo = <<RedactLine(w.line, w.pending \o SubSeq(w.coming, 1, n - 1)),
                                           Newline>>]
                 ELSE [w EXCEPT !.coming = SubSeq(@, n + 1, Len(@)),
                                !.pending = @ \o SubSeq(w.coming, 1, n)]]
    /\ UNCHANGED <<lines, out, flushed>>

\* flush, and the drop of the writer: what is pending is a line.
Flush(t) ==
    LET w == writer[t] IN
    /\ w.todo = <<>> /\ w.pending # <<>>
    /\ writer' = [writer EXCEPT ![t].pending = <<>>,
                                ![t].todo = <<RedactLine(w.line, w.pending), Newline>>]
    /\ flushed' = TRUE
    /\ UNCHANGED <<lines, out>>

Put(t) ==
    /\ writer[t].todo # <<>>
    /\ out' = Append(out, Head(writer[t].todo))
    /\ writer' = [writer EXCEPT ![t].todo = Tail(@)]
    /\ UNCHANGED <<lines, flushed>>

JournalInit ==
    /\ lines = <<>> /\ out = <<>> /\ flushed = FALSE
    /\ writer = [t \in Thread |-> [line |-> {}, coming |-> <<>>, pending |-> <<>>, todo |-> <<>>]]

JournalNext ==
    \E t \in Thread : \/ \E line \in Line : Format(t, line)
                      \/ \E n \in 1..End : Write(t, n)
                      \/ Flush(t) \/ Put(t)

-----------------------------------------------------------------------------
\* What comes out is masked wherever a field's name calls it secret, at any depth, and a part of a line
\* does not come out at all; without a flush amid a line, none is lost.
IsMasked(text) ==
    text.kind = "value" =>
        \A leaf \in text.leaves : \A i \in DOMAIN leaf.path :
            IsSensitive(leaf.path[i]) => i = Len(leaf.path) /\ leaf.text = Mask

LinesAreRedacted ==
    /\ \A i \in DOMAIN out : IsMasked(out[i])
    /\ ~flushed /\ (\A t \in Thread : Idle(t)) =>
          /\ ToSet(out) \ {Newline} = {RedactValue(lines[i]) : i \in DOMAIN lines}
          /\ Len(out) = 2 * Len(lines)
=============================================================================
