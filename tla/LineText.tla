------------------------------- MODULE LineText -------------------------------
(***************************************************************************)
(* The texts the core edits by hand, as sequences of lines.  A line is what *)
(* stands on it and how it ends; only the last line may have no ending.     *)
(* That a lone carriage return may stand at the very end of a text is left  *)
(* out.                                                                     *)
(***************************************************************************)
EXTENDS Naturals, Sequences, SequencesExt

Ends == {"lf", "crlf", "none"}
Line(body, end) == [body |-> body, end |-> end]

Bodies(t) == [i \in DOMAIN t |-> t[i].body]

EndsInNewline(t) == t = <<>> \/ Last(t).end # "none"

\* Mutant: no newline is supplied, so the next line joins the last one.
NotTerminated(t) == t

\* A missing final newline is supplied before anything is appended.
Terminated(t) == IF EndsInNewline(t) THEN t ELSE [t EXCEPT ![Len(t)].end = "lf"]

WithLine(t, body) == Append(Terminated(t), Line(body, "lf"))
WithLines(t, bodies) == Terminated(t) \o [i \in DOMAIN bodies |-> Line(bodies[i], "lf")]

\* Line i takes a new body or goes; 0 is no line.
WithBody(t, i, body) == [t EXCEPT ![i].body = body]
Without(t, i) == IF i = 0 THEN t ELSE RemoveAt(t, i)

\* The elements of a sequence at the places in I, in their order.
Picked(s, I) ==
  LET kept[i \in 0..Len(s)] ==
        IF i = 0 THEN <<>>
        ELSE IF i \in I THEN Append(kept[i - 1], s[i]) ELSE kept[i - 1]
  IN  kept[Len(s)]

\* The elements that are in S.
Only(s, S) == Picked(s, {i \in DOMAIN s : s[i] \in S})

\* The elements of a sequence, each where it first stands.
Distinct(s) ==
  LET IsFirst(i) == \A j \in 1..(i - 1) : s[j] # s[i]
      firsts == SelectSeq([i \in DOMAIN s |-> i], IsFirst)
  IN  [k \in DOMAIN firsts |-> s[firsts[k]]]

\* All texts of up to n lines, the ones a blank unterminated line would
\* repeat left out.
TextsUpTo(n, bodies, ends, blank) ==
  {t \in BoundedSeq([body : bodies, end : ends], n) :
     \A i \in DOMAIN t : t[i].end = "none" => i = Len(t) /\ t[i].body # blank}

\* No operation may glue two lines together.
Lines(t) == \A i \in DOMAIN t : t[i].end = "none" => i = Len(t)

\* A text is read as lines, the last of which may have no ending.
IsText(t) ==
  /\ t \in Seq([body : {t[i].body : i \in DOMAIN t}, end : Ends])
  /\ Lines(t)
=============================================================================
