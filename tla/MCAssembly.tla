----------------------------- MODULE MCAssembly -----------------------------
(* Instances of Assembly: what one author sent. *)
EXTENDS Assembly

Letter(batch, title, re, index, total) ==
  [re |-> re, author |-> "A", patch |-> TRUE, diff |-> index # 0, index |-> index,
   total |-> total, version |-> 1, title |-> title, tag |-> "", batch |-> batch]

\* A series of three patches with its cover letter, and the same patches sent again
\* without one, each in reply to the patch before, by a tool whose Message-IDs have no
\* prefix in common.
SeriesMail == [m \in {"a0", "a1", "a2", "a3", "b1", "b2", "b3"} |->
  CASE m = "a0" -> Letter("a", "cover", "none", 0, 3)
    [] m = "a1" -> Letter("a", "one", "a0", 1, 3)
    [] m = "a2" -> Letter("a", "two", "a0", 2, 3)
    [] m = "a3" -> Letter("a", "three", "a0", 3, 3)
    [] m = "b1" -> Letter("none", "one", "none", 1, 3)
    [] m = "b2" -> Letter("none", "two", "b1", 2, 3)
    [] m = "b3" -> Letter("none", "three", "b2", 3, 3)]

SeriesMsgs == DOMAIN SeriesMail
SeriesSent == {{"a1", "a2", "a3"}, {"b1", "b2", "b3"}}

\* Two series of two patches with a cover letter each.
LetterMail == [m \in {"a0", "a1", "a2", "d0", "d1", "d2"} |->
  CASE m = "a0" -> Letter("a", "cover", "none", 0, 2)
    [] m = "a1" -> Letter("a", "one", "a0", 1, 2)
    [] m = "a2" -> Letter("a", "two", "a0", 2, 2)
    [] m = "d0" -> Letter("d", "cover", "none", 0, 2)
    [] m = "d1" -> Letter("d", "one", "d0", 1, 2)
    [] m = "d2" -> Letter("d", "two", "d0", 2, 2)]

\* A series with its cover letter and a patch by itself.
LonerMail == [m \in {"a0", "a1", "a2", "s1"} |->
  IF m = "s1" THEN Letter("s", "fix", "none", 1, 1) ELSE LetterMail[m]]

LonerMsgs == DOMAIN LonerMail
LonerSent == {{"a1", "a2"}, {"s1"}}

\* What the theorems of AssemblyProofs assume of the mail: the series above are
\* kept apart, and those with a letter each are sent with it.
ASSUME SeriesAreSentApart == SentApart(SeriesMail, SeriesSent)
ASSUME LettersAreSent     == SentWithLetter(LetterMail, {{"a1", "a2"}, {"d1", "d2"}})
ASSUME LonerIsNot         == ~SentApart(LonerMail, LonerSent)
=============================================================================
