------------------------------ MODULE PathName ------------------------------
(***************************************************************************)
(* What src/ad_http_handler.c does with the path of a request:             *)
(* isValidPathname refuses it or correctPathname brings it to one form.    *)
(* A path is a sequence of characters; all that is looked at is whether a  *)
(* character is a slash, a blank or one of the forbidden ones.  The limits *)
(* are those of the platform, which may set them to the same number.       *)
(***************************************************************************)
EXTENDS Integers, Sequences

CONSTANTS
  PathChars,   \* the characters of paths
  Blanks,      \* those that qstrtrim removes
  Forbidden,   \* \ : * ? " < > |
  PathMax,     \* PATH_MAX
  FilenameMax  \* FILENAME_MAX

Slash == "/"

ASSUME PathAssumption ==
  /\ Slash \in PathChars \ (Blanks \cup Forbidden)
  /\ {PathMax, FilenameMax} \subseteq Nat

Paths == Seq(PathChars)

\* A name may have FilenameMax characters, but not one more.
IsValidPathname(p) ==
  /\ Len(p) \in 1..(PathMax - 1)
  /\ p[1] = Slash
  /\ \A i \in DOMAIN p : p[i] \notin Forbidden
  /\ \A i \in 1..(Len(p) - FilenameMax) : \E j \in i..(i + FilenameMax) : p[j] = Slash

\* qstrtrim.
Trim(p) ==
  LET inked == {i \in DOMAIN p : p[i] \notin Blanks}
  IN  IF inked = {} THEN <<>>
      ELSE SubSeq(p, CHOOSE i \in inked : \A j \in inked : i <= j,
                     CHOOSE i \in inked : \A j \in inked : i >= j)

HasDoubleSlash(p) == \E i \in 1..(Len(p) - 1) : p[i] = Slash /\ p[i + 1] = Slash

\* qstrreplace with "//" and "/": one pass from left to right, which does not
\* look again at what it has put.
Halve[p \in Paths] ==
  IF Len(p) < 2 THEN p
  ELSE IF p[1] = Slash /\ p[2] = Slash
    THEN <<Slash>> \o Halve[SubSeq(p, 3, Len(p))]
  ELSE <<p[1]>> \o Halve[Tail(p)]

\* The loop around it: three slashes take two passes.
SingleSlashes[p \in Paths] ==
  IF HasDoubleSlash(p) THEN SingleSlashes[Halve[p]] ELSE p

\* correctPathname.
CorrectPathname(p) ==
  LET q == SingleSlashes[Trim(p)]
  IN  IF Len(q) > 1 /\ q[Len(q)] = Slash THEN SubSeq(q, 1, Len(q) - 1) ELSE q
=============================================================================
