------------------------------ MODULE ArticleDiff ------------------------------
(***************************************************************************)
(* What a publication records of the edits people made after approval      *)
(* (internal/api/article_diff.go): the edit ratio, from a Levenshtein      *)
(* distance filled row by row, and a line diff, from a table of longest    *)
(* common subsequences that is then walked from its first corner.  A       *)
(* document is a sequence of symbols, characters for the one and lines for *)
(* the other; both loops run here over the same pair of documents.         *)
(***************************************************************************)
EXTENDS Integers, FiniteSets, Sequences

CONSTANT Documents

VARIABLES before, after,   \* the article and the text that was published
          long, short,     \* editRatio: a and b, the longer one first
          line,            \* editRatio: rows of the table filled so far
          previous,        \* editRatio: the last row filled
          i, j,            \* lineDiff: how far the walk has come
          out              \* lineDiff: what it has written

vars == <<before, after, long, short, line, previous, i, j, out>>
ratioVars == <<long, short, line, previous>>
diffVars == <<i, j, out>>

SmallestOf(a, b, c) == CHOOSE n \in {a, b, c} : n <= a /\ n <= b /\ n <= c

Init ==
    /\ before \in Documents
    /\ after \in Documents
    /\ IF Len(before) < Len(after)
       THEN long = after /\ short = before
       ELSE long = before /\ short = after
    /\ line = 0
    /\ previous = [n \in 0 .. Len(short) |-> n]
    /\ i = 1 /\ j = 1 /\ out = <<>>

-------------------------------------------------------------------------------
\* The row of symbol r of the longer text, from the row before it.
NextRow(r) ==
    LET row[n \in 0 .. Len(short)] ==
            IF n = 0 THEN r
            ELSE SmallestOf(row[n - 1] + 1, previous[n] + 1,
                            previous[n - 1] + (IF long[r] = short[n] THEN 0 ELSE 1))
    IN  row

FillRow ==
    /\ line < Len(long)
    /\ line' = line + 1
    /\ previous' = NextRow(line + 1)
    /\ UNCHANGED <<before, after, long, short, diffVars>>

-------------------------------------------------------------------------------
\* lcs[i][j]: common lines of the rests of both texts.
Common(p, q) ==
    LET lcs[s \in 1 .. Len(before) + 1, t \in 1 .. Len(after) + 1] ==
            IF s > Len(before) \/ t > Len(after) THEN 0
            ELSE IF before[s] = after[t] THEN lcs[s + 1, t + 1] + 1
            ELSE IF lcs[s + 1, t] >= lcs[s, t + 1] THEN lcs[s + 1, t]
            ELSE lcs[s, t + 1]
    IN  lcs[p, q]

\* Mutant of IsKept: a line is kept when the other text has it anywhere.
IsKeptAnywhere ==
    i <= Len(before) /\ j <= Len(after) /\ \E n \in j .. Len(after) : before[i] = after[n]

IsKept == i <= Len(before) /\ j <= Len(after) /\ before[i] = after[j]
IsAdded ==
    /\ ~IsKept
    /\ j <= Len(after)
    /\ i <= Len(before) => Common(i, j + 1) > Common(i + 1, j)

Wrote(mark, text) == out' = Append(out, [mark |-> mark, text |-> text])

WalkOn ==
    /\ i <= Len(before) \/ j <= Len(after)
    /\ \/ IsKept /\ Wrote(" ", before[i]) /\ i' = i + 1 /\ j' = j + 1
       \/ IsAdded /\ Wrote("+", after[j]) /\ j' = j + 1 /\ UNCHANGED i
       \/ /\ ~IsKept /\ ~IsAdded
          /\ Wrote("-", before[i]) /\ i' = i + 1 /\ UNCHANGED j
    /\ UNCHANGED <<before, after, ratioVars>>

\* The handler computes the ratio first and the diff after it.
Next == FillRow \/ (line = Len(long) /\ WalkOn)

Spec == Init /\ [][Next]_vars

-------------------------------------------------------------------------------
\* The texts a diff was made from: what it keeps or removes, keeps or adds.
Texts(mark) ==
    LET lines == SelectSeq(out, LAMBDA e : e.mark \in {" ", mark})
    IN  [n \in DOMAIN lines |-> lines[n].text]

RatioIsMade == line = Len(long)
DiffIsMade == RatioIsMade /\ i > Len(before) /\ j > Len(after)

(***************************************************************************)
(* Reference: the ways to put symbols of a beside symbols of b in order,   *)
(* the symbols two texts have in common, and the changes one is from the   *)
(* other.                                                                  *)
(***************************************************************************)
Alignments(a, b) ==
    {A \in SUBSET ((1 .. Len(a)) \X (1 .. Len(b))) :
        \A x, y \in A : x = y \/ (x[1] < y[1] /\ x[2] < y[2])
                              \/ (y[1] < x[1] /\ y[2] < x[2])}
Differing(A, a, b) == Cardinality({x \in A : a[x[1]] # b[x[2]]})
Changes(A, a, b) == Len(a) + Len(b) - 2 * Cardinality(A) + Differing(A, a, b)

(***************************************************************************)
(* The original and the diff tell what was published, at the end and at    *)
(* every line on the way: the final text is stored nowhere else.  And no   *)
(* line that both texts have in order is shown as removed and added.       *)
(***************************************************************************)
DiffTracesTheEdit ==
    /\ Texts("-") = SubSeq(before, 1, i - 1)
    /\ Texts("+") = SubSeq(after, 1, j - 1)
    /\ DiffIsMade =>
        LET kept == Cardinality({n \in DOMAIN out : out[n].mark = " "})
        IN  \A A \in Alignments(before, after) :
                Differing(A, before, after) = 0 => Cardinality(A) <= kept

(***************************************************************************)
(* The edit ratio's numerator is the least number of changes, so the ratio *)
(* is between 0 and 1 as the column demands and the same whichever text    *)
(* comes first.                                                            *)
(***************************************************************************)
RatioIsTheDistance ==
    RatioIsMade =>
        LET distance == previous[Len(short)] IN
        /\ distance <= Len(long)
        /\ \A A \in Alignments(before, after) : distance <= Changes(A, before, after)
        /\ \E A \in Alignments(before, after) : distance = Changes(A, before, after)
===============================================================================
