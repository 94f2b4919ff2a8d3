------------------------------- MODULE Debver -------------------------------
(***************************************************************************)
(* The order of Debian package versions, posture/debver.py, by which the   *)
(* Ubuntu observer decides whether a device has reached a fix.  A version  *)
(* is the sequence of the codes of its characters.                         *)
(***************************************************************************)
EXTENDS Integers, Sequences

CONSTANT DebVersions  \* the versions that meet

ASSUME DebverAssumption == DebVersions \subseteq Seq(0 .. 127)

Digit == 48 .. 57
Letter == (65 .. 90) \cup (97 .. 122)
Zero == 48
Hyphen == 45
Colon == 58
Tilde == 126

Sign(x, y) == IF x < y THEN -1 ELSE IF x > y THEN 1 ELSE 0

\* The place after the run of such characters that begins at i.
RunEnd(s, i, chars) ==
  CHOOSE k \in i .. Len(s) + 1 :
    /\ \A n \in i .. k - 1 : s[n] \in chars
    /\ k <= Len(s) => s[k] \notin chars

\* Mutant: a tilde is punctuation like any other.
OrderWithoutTilde(c) ==
  CASE c \in Digit -> 0 [] c \in Letter -> c [] OTHER -> c + 256

\* _order, the end of a version being like a digit.
Order(c) ==
  CASE c \in Digit -> 0
    [] c \in Letter -> c
    [] c = Tilde -> -1
    [] OTHER -> c + 256

OrderAt(s, i) == IF i > Len(s) THEN 0 ELSE Order(s[i])

\* Two digit runs without leading zeros: the longer is greater, else the first
\* difference counts.
CmpDigits(x, y) ==
  IF Len(x) # Len(y) THEN Sign(Len(x), Len(y))
  ELSE IF x = y THEN 0
       ELSE LET k == CHOOSE n \in 1 .. Len(x) :
                       x[n] # y[n] /\ \A m \in 1 .. n - 1 : x[m] = y[m]
            IN  Sign(x[k], y[k])

\* _cmp_str from the places i and j on: a character that is no digit on either
\* side is compared with what is on the other, digit runs as a whole.
CmpAt(a, b, cmp, i, j) ==
  LET NonDigitAt(s, k) == k <= Len(s) /\ s[k] \notin Digit
  IN  IF i > Len(a) /\ j > Len(b) THEN 0
      ELSE IF NonDigitAt(a, i) \/ NonDigitAt(b, j)
           THEN IF OrderAt(a, i) # OrderAt(b, j)
                THEN Sign(OrderAt(a, i), OrderAt(b, j))
                ELSE cmp[<<i + 1, j + 1>>]
           ELSE LET x == RunEnd(a, i, {Zero})
                    y == RunEnd(b, j, {Zero})
                    m == RunEnd(a, x, Digit)
                    n == RunEnd(b, y, Digit)
                    c == CmpDigits(SubSeq(a, x, m - 1), SubSeq(b, y, n - 1))
                IN  IF c # 0 THEN c ELSE cmp[<<m, n>>]

Places(a, b) == (1 .. Len(a) + 1) \X (1 .. Len(b) + 1)

CmpStr(a, b) ==
  LET cmp[at \in Places(a, b)] == CmpAt(a, b, cmp, at[1], at[2])
  IN  cmp[<<1, 1>>]

\* The numbers that the beginnings of a run of digits write, 0 without any.
Values(digits) ==
  LET upTo[n \in 0 .. Len(digits)] ==
        IF n = 0 THEN 0 ELSE 10 * upTo[n - 1] + digits[n] - Zero
  IN  upTo

Value(digits) == Values(digits)[Len(digits)]

\* _split_epoch: what comes before the first colon, 0 if that is no number; the
\* signs, blanks and underscores that int() takes are left out.
SplitEpoch(v) ==
  LET colons == {k \in DOMAIN v : v[k] = Colon}
  IN  IF colons = {} THEN [epoch |-> 0, rest |-> v]
      ELSE LET i == CHOOSE k \in colons : \A n \in colons : k <= n
               before == SubSeq(v, 1, i - 1)
           IN  [epoch |-> IF RunEnd(before, 1, Digit) = i THEN Value(before) ELSE 0,
                rest |-> SubSeq(v, i + 1, Len(v))]

\* _split_rev: at the last hyphen.
SplitRev(v) ==
  LET hyphens == {k \in DOMAIN v : v[k] = Hyphen}
  IN  IF hyphens = {} THEN [upstream |-> v, rev |-> <<>>]
      ELSE LET i == CHOOSE k \in hyphens : \A n \in hyphens : n <= k
           IN  [upstream |-> SubSeq(v, 1, i - 1),
                rev |-> SubSeq(v, i + 1, Len(v))]

Compare(a, b) ==
  LET ea == SplitEpoch(a)
      eb == SplitEpoch(b)
      ra == SplitRev(ea.rest)
      rb == SplitRev(eb.rest)
      c == CmpStr(ra.upstream, rb.upstream)
  IN  IF ea.epoch # eb.epoch THEN Sign(ea.epoch, eb.epoch)
      ELSE IF c # 0 THEN c ELSE CmpStr(ra.rev, rb.rev)

\* _kge, debver.ge: the installed version has the fix.
Kge(installed, fix) == Compare(installed, fix) >= 0

-----------------------------------------------------------------------------
(* The order as Debian Policy 5.6.12 defines it: a part is a list of pairs  *)
(* of a text without digits and a number, either may be empty, and parts    *)
(* compare like the lists.                                                  *)

BlockAt(s, from, i) ==
  IF i > Len(s) THEN <<>>
  ELSE LET j == RunEnd(s, i, (0 .. 127) \ Digit)
           k == RunEnd(s, j, Digit)
       IN  <<[text |-> SubSeq(s, i, j - 1),
              number |-> Value(SubSeq(s, j, k - 1))]>> \o from[k]

BlocksFrom(s) ==
  LET from[i \in 1 .. Len(s) + 1] == BlockAt(s, from, i)
  IN  from

Blocks(s) == BlocksFrom(s)[1]

At(list, n, default) == IF n \in DOMAIN list THEN list[n] ELSE default

\* The least place where two lists differ decides which is the lesser.
ListBefore(x, y, default, Before(_, _)) ==
  \E n \in 1 .. Len(x) + Len(y) :
    /\ \A m \in 1 .. n - 1 : At(x, m, default) = At(y, m, default)
    /\ Before(At(x, n, default), At(y, n, default))

\* A tilde comes before the end of a text, then letters, then the others.
End == -1
Class(c) == CASE c = Tilde -> 0 [] c = End -> 1 [] c \in Letter -> 2 [] OTHER -> 3
CharBefore(c, d) ==
  Class(c) < Class(d) \/ (Class(c) = Class(d) /\ c < d)

BlockBefore(x, y) ==
  \/ ListBefore(x.text, y.text, End, CharBefore)
  \/ x.text = y.text /\ x.number < y.number

PartBefore(s, t) ==
  ListBefore(Blocks(s), Blocks(t), [text |-> <<>>, number |-> 0], BlockBefore)

PolicyBefore(v, w) ==
  LET ev == SplitEpoch(v)
      ew == SplitEpoch(w)
      rv == SplitRev(ev.rest)
      rw == SplitRev(ew.rest)
  IN  \/ ev.epoch < ew.epoch
      \/ ev.epoch = ew.epoch /\ PartBefore(rv.upstream, rw.upstream)
      \/ /\ ev.epoch = ew.epoch
         /\ ~PartBefore(rw.upstream, rv.upstream)
         /\ PartBefore(rv.rev, rw.rev)

\* The versions for which some fix is taken to be there though they come before
\* it, or to be missing though they do not.
Misjudged ==
  {v \in DebVersions : \E w \in DebVersions : Kge(v, w) <=> PolicyBefore(v, w)}
=============================================================================
