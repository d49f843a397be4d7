----------------------------- MODULE PagesProofs -----------------------------
(***************************************************************************)
(* The log view is faithful for any logs and bounds, the targets of the    *)
(* resiliency builder are sound for every set of names, and the lists of   *)
(* applications show what was stopped and hide what was dismissed.         *)
(*                                                                         *)
(* The view: LogsInv is inductive.  That the merge keeps two lines of a    *)
(* stream in the order they arrived follows where the clock does not go    *)
(* back between them: tagStream gives the later one no less than the       *)
(* earlier one, whatever the tokens of other lines.                        *)
(*                                                                         *)
(* The builder: TypeOK /\ TargetsSound is inductive.  A cascade needs the  *)
(* legs' types (what it rewrites) and their references (what it may leave  *)
(* alone), and a dialog is given back only the references its record came  *)
(* with.                                                                   *)
(*                                                                         *)
(* The applications: AppsInv is inductive.  What the user stopped stays    *)
(* remembered and listed, what was dismissed stays hidden, since no scan   *)
(* but an older one passes for a restart.  AppsTyped is inductive with it: *)
(* what requests and dialogs belong to, one by one.                        *)
(***************************************************************************)
EXTENDS MCPages, FiniteSetTheorems, SequenceTheorems, WellFoundedInduction, TLAPS

-----------------------------------------------------------------------------
(* The log view: its invariant                                             *)

Lines == Paths \X Nat \X {"head", "whole", "rest"}
Streams ==
    [path : Paths \union {Idle}, lines : Seq(Lines), revision : Nat,
     status : {"idle", "connecting", "open", "error", "closed"}]
EventSources ==
    [slot : Slots, path : Paths, state : {"connecting", "open"}, cut : Nat, next : Nat \ {0}]
Urls == [app : Apps \union {NoTarget}, cp : Cps \union {NoTarget}, source : Sources \union {"both"}]

LogTypes ==
    /\ url \in Urls /\ cpList \in {"pending", "read", "error"}
    /\ known \subseteq Apps /\ running \subseteq Apps
    /\ log \in [Paths -> Nat] /\ \A p \in Paths : log[p] <= 2 * Len(Stamp[p])
    /\ slots \in [Slots -> Streams] /\ conns \subseteq EventSources
    /\ following \in BOOLEAN /\ levels \subseteq Levels /\ at \in {"bottom", "away", "widened"}

\* A slot shows the path the page gives it, and is idle only without one.
Pathed ==
    \A s \in Slots :
        /\ slots[s].path = pathOf(s)
        /\ (slots[s].status = "idle") = (slots[s].path = Idle)

\* A buffer holds lines of its log.
Buffered ==
    \A s \in Slots :
        /\ Len(slots[s].lines) <= LINE_CAP
        /\ \A i \in DOMAIN slots[s].lines :
              /\ slots[s].lines[i][1] = slots[s].path
              /\ slots[s].lines[i][2] \in DOMAIN Stamp[slots[s].path]

\* A slot has at most one event source, to its path; it is open if that one is.
Connected ==
    /\ \A c, d \in conns : c.slot = d.slot => c = d
    /\ \A c \in conns :
          /\ c.path = slots[c.slot].path /\ c.cut <= log[c.path]
          /\ slots[c.slot].status \in IF c.state = "open" THEN {"open"} ELSE {"connecting", "error"}
    /\ \A s \in Slots : slots[s].status = "open" => \E c \in conns : c.slot = s /\ c.state = "open"

\* The number of the n-th line that a tail opened at cut sends.
Number(cut, n) ==
    LET sends == lastLine(cut) - firstLine(cut) + 1
    IN  IF n <= sends THEN firstLine(cut) + n - 1 ELSE lastLine(cut) + (n - sends - (cut % 2))

LogsInv == LogTypes /\ Pathed /\ Buffered /\ Connected /\ FollowPinned

-----------------------------------------------------------------------------
(* Sorting                                                                 *)

\* A list of entries that before orders strictly.
Sortable(E, N) ==
    /\ N \in Nat /\ DOMAIN E = 1..N
    /\ \A n \in 1..N : E[n].sortTime \in Nat /\ E[n].arrival \in Nat
    /\ \A m, n \in 1..N : E[m].arrival = E[n].arrival => m = n

\* An entry is placed after those before it.
LEMMA PlaceIncreases ==
    ASSUME NEW E, NEW N, Sortable(E, N), NEW m \in 1..N, NEW n \in 1..N, before(E[m], E[n])
    PROVE  place(E, m) < place(E, n)
  <1> DEFINE upTo(k) == {j \in 1..N : j = k \/ before(E[j], E[k])}
  <1>1. upTo(m) \subseteq upTo(n) /\ n \notin upTo(m) /\ n \in upTo(n)
    BY DEF Sortable, before
  <1>2. IsFiniteSet(1..N)
    <2>1. 1 \in Int /\ N \in Int
      BY DEF Sortable
    <2> QED
      BY <2>1, FS_Interval
  <1>3. /\ IsFiniteSet(upTo(n)) /\ IsFiniteSet(upTo(m))
        /\ Cardinality(upTo(m)) \in Nat /\ Cardinality(upTo(n)) \in Nat
    BY <1>2, FS_Subset, FS_CardinalityType
  <1>4. place(E, m) = Cardinality(upTo(m)) /\ place(E, n) = Cardinality(upTo(n))
    BY DEF place, Sortable
  <1> HIDE DEF upTo
  <1>5. Cardinality(upTo(m)) <= Cardinality(upTo(n)) /\ Cardinality(upTo(m)) # Cardinality(upTo(n))
    BY <1>1, <1>3, FS_Subset
  <1> QED
    BY <1>3, <1>4, <1>5

\* Places are those of a list.
LEMMA PlaceRange ==
    ASSUME NEW E, NEW N, Sortable(E, N), NEW n \in 1..N
    PROVE  place(E, n) \in 1..N
  <1> DEFINE upTo == {j \in 1..N : j = n \/ before(E[j], E[n])}
  <1>1. IsFiniteSet(1..N) /\ Cardinality(1..N) = N /\ N \in Nat /\ N >= 1
    BY FS_Interval DEF Sortable
  <1>2. upTo \in SUBSET (1..N) /\ n \in upTo
    OBVIOUS
  <1>3. IsFiniteSet(upTo) /\ Cardinality(upTo) \in Nat /\ Cardinality(upTo) <= N
    BY <1>1, <1>2, FS_Subset, FS_CardinalityType
  <1>4. Cardinality(upTo) # 0
    BY <1>2, <1>3, FS_EmptySet
  <1>5. place(E, n) = Cardinality(upTo)
    BY DEF place, Sortable
  <1> HIDE DEF upTo
  <1> QED
    BY <1>1, <1>3, <1>4, <1>5

\* Different entries have different places, and each place is taken.
LEMMA PlaceOnto ==
    ASSUME NEW E, NEW N, Sortable(E, N), NEW i \in 1..N
    PROVE  \E n \in 1..N : place(E, n) = i
  <1>1. \A m, n \in 1..N : place(E, m) = place(E, n) => m = n
    <2>1. SUFFICES ASSUME NEW m \in 1..N, NEW n \in 1..N, place(E, m) = place(E, n), m # n PROVE FALSE
      OBVIOUS
    <2>2. before(E[m], E[n]) \/ before(E[n], E[m])
      BY <2>1 DEF Sortable, before
    <2>3. place(E, m) < place(E, n) \/ place(E, n) < place(E, m)
      BY <2>2, PlaceIncreases
    <2>4. place(E, m) \in 1..N /\ place(E, n) \in 1..N
      BY PlaceRange
    <2> QED
      BY <2>1, <2>3, <2>4
  <1>2. SUFFICES ASSUME \A n \in 1..N : place(E, n) # i PROVE FALSE
    OBVIOUS
  <1> DEFINE T == (1..N) \ {i}
             f == [n \in 1..N |-> place(E, n)]
  <1>3. f \in [1..N -> T]
    BY <1>2, PlaceRange
  <1>4. IsFiniteSet(1..N) /\ Cardinality(1..N) = N /\ N \in Nat
    BY FS_Interval DEF Sortable
  <1>5. IsFiniteSet(T) /\ Cardinality(T) = N - 1
    BY <1>4, FS_RemoveElement
  <1> HIDE DEF T
  <1>6. PICK x, y \in 1..N : x # y /\ f[x] = f[y]
    <2>1. Cardinality(T) < Cardinality(1..N)
      BY <1>4, <1>5
    <2> HIDE DEF f
    <2> QED
      BY <1>3, <1>4, <1>5, <2>1, FS_PigeonHole
  <1> QED
    BY <1>1, <1>6

\* Sorted, the entries are the same, each after those before it.
LEMMA SortedFacts ==
    ASSUME NEW E, NEW N, Sortable(E, N)
    PROVE  /\ DOMAIN sorted(E) = 1..N
           /\ \A i \in 1..N : \E n \in 1..N : place(E, n) = i /\ sorted(E)[i] = E[n]
           /\ \A n \in 1..N : place(E, n) \in 1..N /\ sorted(E)[place(E, n)] = E[n]
           /\ \A m, n \in 1..N : before(E[m], E[n]) => place(E, m) < place(E, n)
  <1>1. DOMAIN sorted(E) = 1..N
    BY DEF sorted, Sortable
  <1>2. ASSUME NEW i \in 1..N
        PROVE  \E n \in 1..N : place(E, n) = i /\ sorted(E)[i] = E[n]
    <2>1. \E n \in DOMAIN E : place(E, n) = i
      <3>1. DOMAIN E = 1..N
        BY DEF Sortable
      <3>2. \E n \in 1..N : place(E, n) = i
        BY PlaceOnto
      <3> QED
        BY <3>1, <3>2
    <2> DEFINE n == CHOOSE n \in DOMAIN E : place(E, n) = i
    <2>2. n \in DOMAIN E /\ place(E, n) = i
      BY <2>1
    <2>3. sorted(E)[i] = E[n]
      BY DEF sorted, Sortable
    <2> QED
      BY <2>2, <2>3 DEF Sortable
  <1>3. \A m, n \in 1..N : before(E[m], E[n]) => place(E, m) < place(E, n)
    BY PlaceIncreases
  <1>4. ASSUME NEW n \in 1..N
        PROVE  place(E, n) \in 1..N /\ sorted(E)[place(E, n)] = E[n]
    <2>1. place(E, n) \in 1..N
      BY PlaceRange
    <2>2. PICK m \in 1..N : place(E, m) = place(E, n) /\ sorted(E)[place(E, n)] = E[m]
      BY <1>2, <2>1
    <2>3. ~before(E[m], E[n]) /\ ~before(E[n], E[m])
      BY <1>3, <2>1, <2>2
    <2>4. m = n
      BY <2>3 DEF Sortable, before
    <2> QED
      BY <2>1, <2>2, <2>4
  <1> QED
    BY <1>1, <1>2, <1>3, <1>4

-----------------------------------------------------------------------------
(* What a tail sends                                                       *)

\* A cut in halves.
LEMMA Halving ==
    ASSUME NEW c \in Nat
    PROVE  /\ c \div 2 \in Nat /\ (c % 2) \in {0, 1} /\ c = 2 * (c \div 2) + (c % 2)
           /\ lastLine(c) = c \div 2 + (c % 2)
  <1>1. c \div 2 \in Nat /\ (c % 2) \in {0, 1} /\ c = 2 * (c \div 2) + (c % 2)
    OBVIOUS
  <1>2. (c + 1) \div 2 = c \div 2 + (c % 2)
    BY <1>1
  <1> QED
    BY <1>1, <1>2 DEF lastLine

\* The backfill: its length, and where it starts.
LEMMA Backfilled ==
    ASSUME NEW c \in Nat
    PROVE  /\ lastLine(c) \in Nat /\ firstLine(c) \in Nat \ {0} /\ firstLine(c) <= lastLine(c) + 1
  <1>1. lastLine(c) \in Nat /\ Backfill \in Nat
    <2>1. c \div 2 \in Nat /\ c % 2 \in {0, 1} /\ lastLine(c) = c \div 2 + (c % 2)
      BY Halving
    <2> QED
      BY <2>1, LogsAssumption
  <1> QED
    BY <1>1 DEF firstLine

\* Two sequences, one after the other.
LEMMA ConcatFacts ==
    ASSUME NEW S, NEW a \in Seq(S), NEW b \in Seq(S)
    PROVE  /\ a \o b \in Seq(S) /\ Len(a \o b) = Len(a) + Len(b)
           /\ DOMAIN (a \o b) = 1..(Len(a) + Len(b))
           /\ \A n \in 1..(Len(a) + Len(b)) :
                 (a \o b)[n] = IF n <= Len(a) THEN a[n] ELSE b[n - Len(a)]
  OBVIOUS

\* Line n of a log opened at cut is one of its log and has the number foretold.
LEMMA SentFacts ==
    ASSUME NEW p \in Paths, NEW cut \in Nat, NEW length \in Nat, cut <= length,
           length <= 2 * Len(Stamp[p]), NEW n \in DOMAIN sent(p, cut, length)
    PROVE  /\ sent(p, cut, length)[n] \in Lines
           /\ sent(p, cut, length)[n][1] = p
           /\ sent(p, cut, length)[n][2] = Number(cut, n)
           /\ Number(cut, n) \in DOMAIN Stamp[p]
  <1> DEFINE r == cut % 2
             h == cut \div 2
             m == length \div 2
             L == Len(Stamp[p])
             last == lastLine(cut)
             first == firstLine(cut)
             B == last - first + 1
             part(i) == IF r = 1 /\ i = last THEN "head" ELSE "whole"
             back == [i \in 1 .. B |-> <<p, first + i - 1, part(first + i - 1)>>]
             rest == IF r = 1 /\ length > cut THEN <<<<p, last, "rest">>>> ELSE <<>>
             K == IF m > last THEN m - last ELSE 0
             new == IF m > last THEN [i \in 1 .. (m - last) |-> <<p, last + i, "whole">>] ELSE <<>>
  <1>1. sent(p, cut, length) = (back \o rest) \o new
    BY DEF sent
  <1>2. h \in Nat /\ r \in {0, 1} /\ cut = 2 * h + r /\ last = h + r
    BY Halving
  <1>3. m \in Nat /\ (length = 2 * m \/ length = 2 * m + 1)
    BY Halving
  <1>4. L \in Nat /\ DOMAIN Stamp[p] = 1..L /\ length <= 2 * L
    BY StampAssumption
  <1>5. last \in Nat /\ first \in Nat \ {0} /\ first <= last + 1
    BY Backfilled
  <1>6. Number(cut, n) = IF n <= B THEN first + n - 1 ELSE last + (n - B - r)
    BY DEF Number
  <1> HIDE DEF r, h, m, L, last, first
  <1>7. B \in Nat /\ first + B = last + 1
    BY <1>5
  <1>8. last <= L /\ m <= L /\ (r = 1 /\ ~(length > cut) => ~(m > last))
    BY <1>2, <1>3, <1>4
  <1>9. \A i \in 1..B : first + i - 1 \in Nat /\ part(first + i - 1) \in {"head", "whole", "rest"}
    BY <1>5, <1>7
  <1> HIDE DEF part, B
  <1>10. back \in Seq(Lines) /\ Len(back) = B
    BY <1>7, <1>9 DEF Lines
  <1>11. rest \in Seq(Lines) /\ Len(rest) \in {0, 1} /\ (Len(rest) = 1 => r = 1)
         /\ (r = 1 /\ length > cut => Len(rest) = 1)
         /\ \A i \in 1..Len(rest) : rest[i] = <<p, last, "rest">>
    <2>1. CASE r = 1 /\ length > cut
      <3>1. rest = <<<<p, last, "rest">>>> /\ <<p, last, "rest">> \in Lines
        BY <2>1, <1>5 DEF Lines
      <3> HIDE DEF rest
      <3> QED
        BY <3>1, <2>1
    <2>2. CASE ~(r = 1 /\ length > cut)
      <3>1. rest = <<>>
        BY <2>2
      <3> HIDE DEF rest
      <3> QED
        BY <3>1, <2>2
    <2> QED
      BY <2>1, <2>2
  <1>12. new \in Seq(Lines) /\ Len(new) = K /\ K \in Nat
    <2>1. CASE m > last
      <3>1. m - last \in Nat
        BY <1>3, <1>5, <2>1
      <3>2. new = [i \in 1 .. (m - last) |-> <<p, last + i, "whole">>]
        BY <2>1
      <3>3. \A i \in 1 .. (m - last) : <<p, last + i, "whole">> \in Lines
        BY <1>5 DEF Lines
      <3> QED
        BY <2>1, <3>1, <3>2, <3>3
    <2> QED
      BY <2>1
  <1>13. \A i \in 1..B : back[i] = <<p, first + i - 1, part(first + i - 1)>>
    OBVIOUS
  <1>14. \A i \in 1..K : new[i] = <<p, last + i, "whole">>
    BY <1>3, <1>5
  <1>15. K # 0 => m > last /\ K = m - last
    OBVIOUS
  <1> HIDE DEF back, rest, new, K
  <1> DEFINE both == back \o rest
             all == both \o new
             R == Len(rest)
  <1>16. /\ both \in Seq(Lines) /\ Len(both) = B + R
         /\ \A i \in 1..(B + R) : both[i] = IF i <= B THEN back[i] ELSE rest[i - B]
    BY <1>10, <1>11, ConcatFacts
  <1> HIDE DEF both
  <1>17. /\ all \in Seq(Lines) /\ DOMAIN all = 1..(B + R + K)
         /\ \A i \in 1..(B + R + K) : all[i] = IF i <= B + R THEN both[i] ELSE new[i - (B + R)]
    <2>1. B + R \in Nat
      BY <1>7, <1>11
    <2>2. /\ all \in Seq(Lines) /\ DOMAIN all = 1..(Len(both) + Len(new))
          /\ \A i \in 1..(Len(both) + Len(new)) :
                all[i] = IF i <= Len(both) THEN both[i] ELSE new[i - Len(both)]
      BY <1>12, <1>16, ConcatFacts
    <2> HIDE DEF all, R
    <2> QED
      BY <1>12, <1>16, <2>1, <2>2
  <1>18. sent(p, cut, length) = all
    BY <1>1 DEF both
  <1> HIDE DEF all, R
  <1>19. n \in 1..(B + R + K) /\ R \in {0, 1} /\ n \in Nat /\ n >= 1
    BY <1>7, <1>11, <1>12, <1>17, <1>18 DEF R
  <1>20. all[n] \in Lines
    <2>1. all \in Seq(Lines) /\ n \in DOMAIN all
      BY <1>17, <1>18
    <2> HIDE DEF Lines
    <2> QED
      BY <2>1
  <1>21. /\ all[n][1] = p /\ all[n][2] = Number(cut, n)
         /\ Number(cut, n) \in Nat /\ Number(cut, n) >= 1 /\ Number(cut, n) <= L
    <2>1. CASE n <= B
      <3>1. all[n] = back[n] /\ n \in 1..B
        BY <1>7, <1>16, <1>17, <1>19, <2>1
      <3>2. all[n] = <<p, first + n - 1, part(first + n - 1)>>
        BY <1>13, <3>1
      <3>3. Number(cut, n) = first + n - 1
        BY <1>6, <2>1
      <3>4. first + n - 1 <= last /\ first + n - 1 >= 1 /\ first + n - 1 \in Nat
        BY <1>5, <1>7, <1>19, <2>1
      <3>5. first + n - 1 <= L
        BY <1>4, <1>5, <1>8, <3>4
      <3> QED
        BY <3>2, <3>3, <3>4, <3>5
    <2>2. CASE ~(n <= B) /\ n <= B + R
      <3>1. R = 1 /\ n = B + 1
        BY <1>7, <1>19, <2>2
      <3>2. r = 1
        BY <1>11, <3>1 DEF R
      <3>3. all[n] = rest[n - B] /\ n - B \in 1..R
        BY <1>7, <1>16, <1>17, <1>19, <2>2, <3>1
      <3>4. all[n] = <<p, last, "rest">>
        BY <1>11, <3>3 DEF R
      <3>5. Number(cut, n) = last
        BY <1>5, <1>6, <1>7, <2>2, <3>1, <3>2
      <3>6. last >= 1
        BY <1>2, <3>2
      <3> QED
        BY <1>5, <1>8, <3>4, <3>5, <3>6
    <2>3. CASE ~(n <= B + R)
      <3>1. n - (B + R) \in 1..K /\ K # 0
        BY <1>7, <1>12, <1>19, <2>3
      <3>2. all[n] = <<p, last + (n - (B + R)), "whole">>
        BY <1>14, <1>17, <1>19, <2>3, <3>1
      <3>3. m > last /\ K = m - last
        BY <1>15, <3>1
      <3>4. R = r
        <4>1. CASE r = 1
          <5>1. length > cut
            BY <1>8, <3>3, <4>1
          <5> QED
            BY <1>11, <4>1, <5>1 DEF R
        <4>2. CASE r # 1
          <5>1. r = 0
            BY <1>2, <4>2
          <5>2. Len(rest) = 0
            BY <1>11, <4>2
          <5> QED
            BY <5>1, <5>2 DEF R
        <4> QED
          BY <4>1, <4>2
      <3>5. Number(cut, n) = last + (n - (B + R))
        BY <1>5, <1>6, <1>7, <1>19, <2>3, <3>4
      <3>6. n - (B + R) \in Nat /\ n - (B + R) >= 1 /\ n - (B + R) <= m - last
        BY <1>12, <3>1, <3>3
      <3>7. last + (n - (B + R)) <= L /\ last + (n - (B + R)) >= 1 /\ last + (n - (B + R)) \in Nat
        BY <1>3, <1>4, <1>5, <1>8, <3>6
      <3> QED
        BY <3>2, <3>5, <3>7
    <2> QED
      BY <1>7, <1>19, <2>1, <2>2, <2>3
  <1> QED
    BY <1>4, <1>18, <1>20, <1>21 DEF L

-----------------------------------------------------------------------------
(* Buffers                                                                 *)

\* A buffer at its cap keeps its newest lines.
LEMMA CappedFacts ==
    ASSUME NEW S, NEW s \in Seq(S)
    PROVE  /\ capped(s) \in Seq(S) /\ Len(capped(s)) <= LINE_CAP
           /\ \E d \in Nat :
                 /\ DOMAIN capped(s) = 1..(Len(s) - d) /\ d <= Len(s)
                 /\ \A i \in DOMAIN capped(s) : i + d \in DOMAIN s /\ capped(s)[i] = s[i + d]
  <1>1. LINE_CAP \in Nat \ {0} /\ Len(s) \in Nat
    BY LogsAssumption
  <1> DEFINE d == IF Len(s) <= LINE_CAP THEN 0 ELSE Len(s) - LINE_CAP
  <1>2. d \in Nat /\ d <= Len(s) /\ Len(s) - d <= LINE_CAP
    BY <1>1
  <1>3. /\ capped(s) \in Seq(S) /\ DOMAIN capped(s) = 1..(Len(s) - d) /\ Len(capped(s)) = Len(s) - d
        /\ \A i \in 1..(Len(s) - d) : capped(s)[i] = s[i + d]
    <2>1. CASE Len(s) <= LINE_CAP
      <3>1. capped(s) = s /\ d = 0
        BY <1>1, <2>1 DEF capped
      <3> QED
        BY <1>1, <3>1
    <2>2. CASE ~(Len(s) <= LINE_CAP)
      <3>1. capped(s) = SubSeq(s, d + 1, Len(s)) /\ d \in Nat /\ d <= Len(s)
        BY <1>1, <1>2, <2>2 DEF capped
      <3> HIDE DEF d
      <3>2. /\ SubSeq(s, d + 1, Len(s)) \in Seq(S) /\ Len(SubSeq(s, d + 1, Len(s))) = Len(s) - d
            /\ \A i \in 1..(Len(s) - d) : SubSeq(s, d + 1, Len(s))[i] = s[i + d]
        BY <1>1, <3>1
      <3> QED
        BY <1>1, <3>1, <3>2
    <2> QED
      BY <2>1, <2>2
  <1> HIDE DEF d
  <1>4. \A i \in 1..(Len(s) - d) : i + d \in DOMAIN s
    BY <1>1, <1>2
  <1> QED
    BY <1>1, <1>2, <1>3, <1>4

-----------------------------------------------------------------------------
(* Merging                                                                 *)

\* Some positions up to n have a last one.
LEMMA LatestFacts ==
    ASSUME NEW n \in Nat, NEW S \in SUBSET (1..n), S # {}
    PROVE  latest(S) \in S /\ \A i \in S : i <= latest(S)
  <1> DEFINE T == {m \in Nat : \A i \in S : i <= m}
  <1>1. n \in T /\ T \subseteq Nat
    OBVIOUS
  <1>2. PICK m \in T : \A k \in T : <<k, m>> \notin OpToRel(<, Nat)
    BY <1>1, NatLessThanWellFounded, WFMin
  <1>3. \A k \in T : ~(k < m)
    BY <1>1, <1>2 DEF OpToRel
  <1>4. m \in S
    <2>1. SUFFICES ASSUME m \notin S PROVE FALSE
      OBVIOUS
    <2>2. \A i \in S : i <= m - 1 /\ i >= 1
      BY <2>1
    <2>3. PICK i \in S : TRUE
      OBVIOUS
    <2>4. m - 1 \in Nat /\ m \in Nat
      <3>1. i \in Nat /\ i >= 1 /\ i <= m - 1
        BY <2>2, <2>3
      <3>2. m \in Nat
        OBVIOUS
      <3> QED
        BY <3>1, <3>2
    <2>5. m - 1 \in T
      BY <2>2, <2>4
    <2> QED
      BY <1>3, <2>4, <2>5
  <1>5. \A i \in S : i <= m
    OBVIOUS
  <1> QED
    BY <1>4, <1>5 DEF latest

Entries == [line : Lines, src : Sources, arrival : Nat, sortTime : Nat]

\* The lines of a log, in a buffer.
OfLog(lines, p) ==
    /\ lines \in Seq(Lines)
    /\ \A i \in DOMAIN lines : lines[i][1] = p /\ lines[i][2] \in DOMAIN Stamp[p]

\* No clock token of the lines after i up to j is earlier than one up to i.
Forward(lines, i, j) ==
    \A a \in 1..i, b \in (i + 1)..j :
        parseLogTime(lines[a]) # 0 /\ parseLogTime(lines[b]) # 0 => parseLogTime(lines[a]) <= parseLogTime(lines[b])

\* The clock token of a line is a number.
LEMMA ClockOfLine ==
    ASSUME NEW p \in Paths, NEW lines, OfLog(lines, p), NEW i \in DOMAIN lines
    PROVE  parseLogTime(lines[i]) \in Nat
  BY StampAssumption DEF OfLog, parseLogTime

\* Tagged, the lines of a log keep their order of arrival, and go back in time with the clock only.
LEMMA TagFacts ==
    ASSUME NEW p \in Paths, NEW lines, OfLog(lines, p), NEW src \in Sources, NEW base \in Nat
    PROVE  /\ tagStream(lines, src, base) \in Seq(Entries)
           /\ DOMAIN tagStream(lines, src, base) = DOMAIN lines
           /\ \A i \in DOMAIN lines :
                 /\ tagStream(lines, src, base)[i].src = src
                 /\ tagStream(lines, src, base)[i].arrival = base + 2 * i
           /\ \A i, j \in DOMAIN lines :
                 i < j /\ Forward(lines, i, j) => tagStream(lines, src, base)[i].sortTime <= tagStream(lines, src, base)[j].sortTime
  <1> DEFINE timed(i) == {j \in 1 .. i : parseLogTime(lines[j]) # 0}
             time(i) == IF timed(i) = {} THEN 0 ELSE parseLogTime(lines[latest(timed(i))])
             entry(i) == [line |-> lines[i], src |-> src, arrival |-> base + 2 * i, sortTime |-> time(i)]
  <1>1. tagStream(lines, src, base) = [i \in DOMAIN lines |-> entry(i)]
    BY DEF tagStream
  <1>2. DOMAIN lines = 1..Len(lines) /\ Len(lines) \in Nat
    BY DEF OfLog
  <1>3. ASSUME NEW i \in DOMAIN lines, timed(i) # {}
        PROVE  /\ latest(timed(i)) \in DOMAIN lines /\ latest(timed(i)) \in timed(i)
               /\ \A j \in timed(i) : j <= latest(timed(i))
               /\ parseLogTime(lines[latest(timed(i))]) # 0
    <2>1. i \in Nat /\ timed(i) \in SUBSET (1..i)
      BY <1>2
    <2> HIDE DEF timed
    <2>2. latest(timed(i)) \in timed(i) /\ \A j \in timed(i) : j <= latest(timed(i))
      BY <1>3, <2>1, LatestFacts
    <2>3. latest(timed(i)) \in 1..i /\ parseLogTime(lines[latest(timed(i))]) # 0
      BY <2>2 DEF timed
    <2> QED
      BY <1>2, <2>2, <2>3
  <1>4. ASSUME NEW i \in DOMAIN lines
        PROVE  time(i) \in Nat
    <2> HIDE DEF timed
    <2>1. CASE timed(i) = {}
      BY <2>1
    <2>2. CASE timed(i) # {}
      BY <1>3, <2>2, ClockOfLine
    <2> QED
      BY <2>1, <2>2
  <1>5. ASSUME NEW i \in DOMAIN lines, NEW j \in DOMAIN lines, i < j, Forward(lines, i, j)
        PROVE  time(i) <= time(j)
    <2>1. timed(i) \subseteq timed(j)
      BY <1>2, <1>5
    <2> HIDE DEF timed
    <2>2. CASE timed(i) = {}
      BY <1>4, <2>2
    <2>3. CASE timed(i) # {}
      <3> DEFINE a == latest(timed(i))
                 b == latest(timed(j))
      <3>1. timed(j) # {}
        BY <2>1, <2>3
      <3>2. /\ a \in DOMAIN lines /\ a \in timed(i) /\ parseLogTime(lines[a]) # 0
            /\ b \in DOMAIN lines /\ b \in timed(j) /\ parseLogTime(lines[b]) # 0
            /\ (\A k \in timed(i) : k <= a) /\ \A k \in timed(j) : k <= b
        BY <1>3, <2>3, <3>1
      <3>3. time(i) = parseLogTime(lines[a]) /\ time(j) = parseLogTime(lines[b])
        BY <2>3, <3>1
      <3> HIDE DEF a, b, time
      <3>4. a \in 1..i /\ b \in 1..j /\ i \in Nat /\ j \in Nat
        BY <1>2, <3>2 DEF timed
      <3>5. CASE b <= i
        <4>1. b \in timed(i)
          BY <3>2, <3>4, <3>5 DEF timed
        <4>2. a = b
          BY <2>1, <3>2, <3>4, <4>1
        <4> QED
          BY <1>4, <3>3, <4>2
      <3>6. CASE ~(b <= i)
        <4>1. b \in (i + 1)..j
          BY <3>4, <3>6
        <4> QED
          BY <1>5, <3>2, <3>3, <3>4, <4>1 DEF Forward
      <3> QED
        BY <3>5, <3>6
    <2> QED
      BY <2>2, <2>3
  <1> HIDE DEF time
  <1>6. \A i \in DOMAIN lines : entry(i) \in Entries
    <2>1. \A i \in DOMAIN lines : lines[i] \in Lines /\ i \in Nat
      BY <1>2 DEF OfLog
    <2> QED
      BY <1>4, <2>1 DEF Entries
  <1>7. tagStream(lines, src, base) \in Seq(Entries)
    BY <1>1, <1>2, <1>6
  <1>8. \A i, j \in DOMAIN lines :
           i < j /\ Forward(lines, i, j) => tagStream(lines, src, base)[i].sortTime <= tagStream(lines, src, base)[j].sortTime
    BY <1>1, <1>5
  <1> QED
    BY <1>1, <1>7, <1>8

\* The buffer a source's lines are merged from.
LEMMA StreamFacts ==
    ASSUME LogTypes, Buffered, NEW s \in Sources
    PROVE  /\ stream(s) \in Seq(Entries) /\ DOMAIN stream(s) \subseteq 1..LINE_CAP
           /\ \A i \in DOMAIN stream(s) :
                 /\ stream(s)[i].src = s
                 /\ stream(s)[i].arrival = (IF s = "app" THEN 1 ELSE 0) + 2 * i
           /\ \A i, j \in DOMAIN stream(s) :
                 i < j /\ forward(s, i, j) => stream(s)[i].sortTime <= stream(s)[j].sortTime
  <1> DEFINE lines == slots[s].lines
             base == IF s = "app" THEN 1 ELSE 0
  <1>1. slots[s] \in Streams /\ s \in Slots /\ base \in Nat
    BY DEF LogTypes, Slots
  <1>2. lines \in Seq(Lines)
    BY <1>1 DEF Streams
  <1>3. stream(s) = tagStream(lines, s, base)
    BY DEF stream
  <1>4. CASE lines = <<>>
    <2>1. stream(s) = <<>>
      BY <1>3, <1>4 DEF tagStream
    <2> QED
      BY <2>1
  <1>5. CASE lines # <<>>
    <2>1. lines[1] \in Lines /\ 1 \in DOMAIN lines
      BY <1>2, <1>5
    <2>2. slots[s].path \in Paths
      BY <1>1, <2>1 DEF Buffered, Lines
    <2>3. OfLog(lines, slots[s].path)
      BY <1>1, <1>2 DEF Buffered, OfLog
    <2>4. \A i, j : forward(s, i, j) = Forward(lines, i, j)
      BY DEF forward, Forward
    <2>5. DOMAIN lines \subseteq 1..LINE_CAP
      <3>1. DOMAIN lines = 1..Len(lines) /\ Len(lines) \in Nat /\ Len(lines) <= LINE_CAP /\ LINE_CAP \in Nat
        BY <1>1, <1>2, LogsAssumption DEF Buffered
      <3> HIDE DEF lines
      <3> QED
        BY <3>1
    <2>6. s \in Sources /\ base \in Nat
      BY <1>1
    <2> HIDE DEF lines, base
    <2>7. /\ stream(s) \in Seq(Entries) /\ DOMAIN stream(s) = DOMAIN lines
          /\ \A i \in DOMAIN lines : stream(s)[i].src = s /\ stream(s)[i].arrival = base + 2 * i
          /\ \A i, j \in DOMAIN lines :
                i < j /\ Forward(lines, i, j) => stream(s)[i].sortTime <= stream(s)[j].sortTime
      BY <1>3, <2>2, <2>3, <2>6, TagFacts
    <2>8. \A i, j \in DOMAIN stream(s) :
             i < j /\ forward(s, i, j) => stream(s)[i].sortTime <= stream(s)[j].sortTime
      BY <2>4, <2>7
    <2> QED
      BY <2>5, <2>7, <2>8 DEF base
  <1> QED
    BY <1>4, <1>5

\* The streams one after the other can be sorted, and an entry is of the stream it names.
Unmerged == stream("daprd") \o stream("app")
Size == Len(stream("daprd")) + Len(stream("app"))

\* Both streams together: their entries, and a list that can be sorted.
LEMMA UnmergedFacts ==
    ASSUME LogTypes, Buffered
    PROVE  /\ Unmerged \in Seq(Entries) /\ Sortable(Unmerged, Size)
           /\ \A s \in Sources : \A i \in DOMAIN stream(s) : \E k \in 1..Size : Unmerged[k] = stream(s)[i]
           /\ \A k \in 1..Size :
                 \E i \in DOMAIN stream(Unmerged[k].src) : Unmerged[k] = stream(Unmerged[k].src)[i]
  <1> DEFINE a == stream("daprd")
             b == stream("app")
  <1>1. a \in Seq(Entries) /\ b \in Seq(Entries) /\ Len(a) \in Nat /\ Len(b) \in Nat
        /\ DOMAIN a = 1..Len(a) /\ DOMAIN b = 1..Len(b)
    BY StreamFacts DEF Sources
  <1>2. /\ \A i \in 1..Len(a) : a[i].src = "daprd" /\ a[i].arrival = 2 * i
        /\ \A i \in 1..Len(b) : b[i].src = "app" /\ b[i].arrival = 2 * i + 1
    <2>1. \A i \in DOMAIN a : a[i].src = "daprd" /\ a[i].arrival = 0 + 2 * i
      BY StreamFacts DEF Sources
    <2>2. \A i \in DOMAIN b : b[i].src = "app" /\ b[i].arrival = 1 + 2 * i
      BY StreamFacts DEF Sources
    <2> HIDE DEF a, b
    <2>3. \A i \in 1..Len(a) : a[i].src = "daprd" /\ a[i].arrival = 2 * i
      <3>1. \A i \in Nat : 0 + 2 * i = 2 * i
        OBVIOUS
      <3> QED
        BY <1>1, <2>1, <3>1
    <2>4. \A i \in 1..Len(b) : b[i].src = "app" /\ b[i].arrival = 2 * i + 1
      <3>1. \A i \in Nat : 1 + 2 * i = 2 * i + 1
        OBVIOUS
      <3> QED
        BY <1>1, <2>2, <3>1
    <2> QED
      BY <2>3, <2>4
  <1>3. Unmerged = a \o b /\ Size = Len(a) + Len(b)
    BY DEF Unmerged, Size
  <1> HIDE DEF a, b
  <1>4. /\ Unmerged \in Seq(Entries) /\ DOMAIN Unmerged = 1..Size /\ Size \in Nat
        /\ \A k \in 1..Size : Unmerged[k] = IF k <= Len(a) THEN a[k] ELSE b[k - Len(a)]
    BY <1>1, <1>3, ConcatFacts
  <1>5. \A k \in 1..Size : Unmerged[k] \in Entries
    BY <1>4
  <1>6. \A k \in 1..Size : IF k <= Len(a) THEN k \in 1..Len(a) ELSE k - Len(a) \in 1..Len(b)
    BY <1>1, <1>3
  <1>7. ASSUME NEW m \in 1..Size, NEW n \in 1..Size, Unmerged[m].arrival = Unmerged[n].arrival
        PROVE  m = n
    <2>1. Unmerged[m].arrival = IF m <= Len(a) THEN 2 * m ELSE 2 * (m - Len(a)) + 1
      BY <1>2, <1>4, <1>6
    <2>2. Unmerged[n].arrival = IF n <= Len(a) THEN 2 * n ELSE 2 * (n - Len(a)) + 1
      BY <1>2, <1>4, <1>6
    <2>3. m \in Nat /\ n \in Nat /\ Len(a) \in Nat
      BY <1>1, <1>4
    <2>4. CASE m <= Len(a) /\ n <= Len(a)
      <3>1. 2 * m = 2 * n
        BY <1>7, <2>1, <2>2, <2>4
      <3> QED
        BY <2>3, <3>1
    <2>5. CASE m <= Len(a) /\ ~(n <= Len(a))
      <3>1. 2 * m = 2 * (n - Len(a)) + 1
        BY <1>7, <2>1, <2>2, <2>5
      <3> QED
        BY <2>3, <3>1
    <2>6. CASE ~(m <= Len(a)) /\ n <= Len(a)
      <3>1. 2 * (m - Len(a)) + 1 = 2 * n
        BY <1>7, <2>1, <2>2, <2>6
      <3> QED
        BY <2>3, <3>1
    <2>7. CASE ~(m <= Len(a)) /\ ~(n <= Len(a))
      <3>1. 2 * (m - Len(a)) + 1 = 2 * (n - Len(a)) + 1
        BY <1>7, <2>1, <2>2, <2>7
      <3> QED
        BY <2>3, <3>1
    <2> QED
      BY <2>4, <2>5, <2>6, <2>7
  <1>8. Sortable(Unmerged, Size)
    BY <1>4, <1>5, <1>7 DEF Sortable, Entries
  <1>9. ASSUME NEW k \in 1..Size
        PROVE  \E i \in DOMAIN stream(Unmerged[k].src) : Unmerged[k] = stream(Unmerged[k].src)[i]
    <2>1. CASE k <= Len(a)
      <3>1. k \in DOMAIN a /\ Unmerged[k] = a[k] /\ a[k].src = "daprd"
        BY <1>1, <1>2, <1>4, <1>6, <2>1
      <3> QED
        BY <3>1 DEF a
    <2>2. CASE ~(k <= Len(a))
      <3>1. k - Len(a) \in DOMAIN b /\ Unmerged[k] = b[k - Len(a)] /\ b[k - Len(a)].src = "app"
        BY <1>1, <1>2, <1>4, <1>6, <2>2
      <3> QED
        BY <3>1 DEF b
    <2> QED
      BY <2>1, <2>2
  <1>10. ASSUME NEW s \in Sources, NEW i \in DOMAIN stream(s)
         PROVE  \E k \in 1..Size : Unmerged[k] = stream(s)[i]
    <2>1. CASE s = "daprd"
      <3>1. i \in 1..Len(a) /\ stream(s)[i] = a[i]
        BY <1>1, <1>10, <2>1 DEF a
      <3>2. i \in 1..Size /\ Unmerged[i] = a[i]
        BY <1>1, <1>3, <1>4, <3>1
      <3> QED
        BY <3>1, <3>2
    <2>2. CASE s = "app"
      <3>1. i \in 1..Len(b) /\ stream(s)[i] = b[i]
        BY <1>1, <1>10, <2>2 DEF b
      <3>2. Len(a) + i \in 1..Size /\ ~(Len(a) + i <= Len(a)) /\ Len(a) + i - Len(a) = i
        BY <1>1, <1>3, <3>1
      <3>3. PICK k \in 1..Size : k = Len(a) + i
        BY <3>2
      <3>4. ~(k <= Len(a)) /\ k - Len(a) = i
        BY <1>1, <3>1, <3>2, <3>3
      <3>5. Unmerged[k] = b[i]
        BY <1>4, <3>4
      <3> QED
        BY <3>1, <3>5
    <2> QED
      BY <2>1, <2>2 DEF Sources
  <1> QED
    BY <1>4, <1>8, <1>9, <1>10

\* Entries of a stream are sorted as they arrived where the clock does not go back.
LEMMA StreamOrder ==
    ASSUME LogTypes, Buffered, NEW s \in Sources, NEW i \in DOMAIN stream(s), NEW j \in DOMAIN stream(s),
           i < j, forward(s, i, j)
    PROVE  before(stream(s)[i], stream(s)[j])
  <1> DEFINE x == stream(s)[i]
             y == stream(s)[j]
  <1>1. i \in Nat /\ j \in Nat /\ x \in Entries /\ y \in Entries
    BY StreamFacts
  <1>2. PICK base \in {0, 1} : x.arrival = base + 2 * i /\ y.arrival = base + 2 * j
    BY StreamFacts
  <1>3. x.sortTime <= y.sortTime
    BY StreamFacts
  <1>4. x.sortTime \in Nat /\ y.sortTime \in Nat
    BY <1>1 DEF Entries
  <1> HIDE DEF x, y
  <1>5. x.arrival < y.arrival
    BY <1>1, <1>2
  <1>6. before(x, y)
    BY <1>3, <1>4, <1>5 DEF before
  <1> QED
    BY <1>6 DEF x, y

\* The view of two sources keeps the streams.
LEMMA BothMerged ==
    ASSUME LogTypes, Buffered, url.source = "both"
    PROVE  MergeKeepsStreams
  <1> DEFINE E == Unmerged
             N == Size
             S == sorted(E)
             shows(n, s, i) == n \in DOMAIN merged /\ i \in DOMAIN stream(s) /\ merged[n] = stream(s)[i]
  <1>1. E \in Seq(Entries) /\ Sortable(E, N) /\ N \in Nat
    BY UnmergedFacts DEF Sortable
  <1>2. /\ DOMAIN S = 1..N
        /\ \A i \in 1..N : \E n \in 1..N : place(E, n) = i /\ S[i] = E[n]
        /\ \A n \in 1..N : place(E, n) \in 1..N /\ S[place(E, n)] = E[n]
        /\ \A m, n \in 1..N : before(E[m], E[n]) => place(E, m) < place(E, n)
    BY <1>1, SortedFacts
  <1>3. \A n \in 1..N : E[n] \in Entries
    BY <1>1 DEF Sortable
  <1>4. S \in Seq(Entries) /\ Len(S) = N
    <2>1. S = [i \in 1..N |-> S[i]]
      BY <1>1 DEF sorted, Sortable
    <2>2. \A i \in 1..N : S[i] \in Entries
      BY <1>2, <1>3
    <2> HIDE DEF S, N
    <2> QED
      BY <1>1, <2>1, <2>2
  <1>5. merged = capped(S)
    BY DEF merged, Unmerged
  <1>6. /\ \A k \in 1..N : \E i \in DOMAIN stream(E[k].src) : E[k] = stream(E[k].src)[i]
        /\ \A s \in Sources : \A i \in DOMAIN stream(s) : \E k \in 1..N : E[k] = stream(s)[i]
    BY UnmergedFacts
  <1> HIDE DEF S, E, N
  <1>7. PICK d \in Nat :
           /\ d <= N /\ DOMAIN merged = 1..(N - d)
           /\ \A i \in DOMAIN merged : i + d \in 1..N /\ merged[i] = S[i + d]
    <2>1. PICK d \in Nat :
             /\ DOMAIN capped(S) = 1..(Len(S) - d) /\ d <= Len(S)
             /\ \A i \in DOMAIN capped(S) : i + d \in DOMAIN S /\ capped(S)[i] = S[i + d]
      BY <1>4, CappedFacts
    <2> QED
      BY <1>2, <1>4, <1>5, <2>1
  <1>8. ASSUME NEW n \in DOMAIN merged
        PROVE  n \in Nat /\ \E k \in 1..N : place(E, k) = n + d /\ merged[n] = E[k]
    <2>1. n + d \in 1..N /\ merged[n] = S[n + d]
      BY <1>7
    <2>2. n \in Nat
      BY <1>1, <1>7
    <2>3. PICK k \in 1..N : place(E, k) = n + d /\ S[n + d] = E[k]
      BY <1>2, <2>1
    <2> QED
      BY <2>1, <2>2, <2>3
  <1>9. \A k, l \in 1..N : E[k] = E[l] => k = l
    BY <1>1 DEF Sortable
  <1>10. ASSUME NEW n \in DOMAIN merged
         PROVE  \E i \in 1..LINE_CAP : shows(n, merged[n].src, i)
    <2>1. PICK k \in 1..N : merged[n] = E[k]
      BY <1>8
    <2>2. PICK i \in DOMAIN stream(E[k].src) : E[k] = stream(E[k].src)[i]
      BY <1>6
    <2>3. E[k].src \in Sources
      BY <1>3 DEF Entries
    <2>4. i \in 1..LINE_CAP
      BY <2>2, <2>3, StreamFacts
    <2> QED
      BY <2>1, <2>2, <2>4
  <1>11. ASSUME NEW m \in DOMAIN merged, NEW n \in DOMAIN merged, merged[m] = merged[n]
         PROVE  m = n
    <2>1. PICK k \in 1..N : place(E, k) = m + d /\ merged[m] = E[k]
      BY <1>8
    <2>2. PICK l \in 1..N : place(E, l) = n + d /\ merged[n] = E[l]
      BY <1>8
    <2>3. m + d = n + d
      BY <1>9, <1>11, <2>1, <2>2
    <2> QED
      BY <1>8, <2>3
  <1>12. ASSUME NEW s \in Sources, NEW i \in DOMAIN stream(s), NEW j \in DOMAIN stream(s), i < j,
                forward(s, i, j), NEW m \in DOMAIN merged, shows(m, s, i)
         PROVE  \E n \in DOMAIN merged : m < n /\ shows(n, s, j)
    <2>1. PICK k \in 1..N : place(E, k) = m + d /\ merged[m] = E[k]
      BY <1>8
    <2>2. PICK l \in 1..N : E[l] = stream(s)[j]
      BY <1>6
    <2>3. before(E[k], E[l])
      BY <1>12, <2>1, <2>2, StreamOrder
    <2>4. m + d < place(E, l) /\ place(E, l) \in 1..N /\ S[place(E, l)] = stream(s)[j]
      BY <1>2, <2>1, <2>2, <2>3
    <2> DEFINE n == place(E, l) - d
    <2>5. m \in Nat /\ m >= 1
      BY <1>1, <1>7
    <2>6. n \in 1..(N - d) /\ n + d = place(E, l) /\ m < n
      BY <1>1, <2>4, <2>5
    <2> HIDE DEF n
    <2>7. n \in DOMAIN merged /\ merged[n] = stream(s)[j]
      BY <1>7, <2>4, <2>6
    <2> QED
      BY <2>6, <2>7
  <1> QED
    BY <1>10, <1>11, <1>12 DEF MergeKeepsStreams

\* So does the view of one, which is its stream.
LEMMA OneMerged ==
    ASSUME LogTypes, Buffered, url.source \in Sources
    PROVE  MergeKeepsStreams
  <1> DEFINE x == url.source
             shows(n, s, i) == n \in DOMAIN merged /\ i \in DOMAIN stream(s) /\ merged[n] = stream(s)[i]
  <1>1. merged = stream(x) /\ x \in Sources
    BY DEF merged, Sources
  <1>2. DOMAIN merged \subseteq 1..LINE_CAP /\ DOMAIN merged \subseteq Nat
    BY <1>1, StreamFacts
  <1>3. \A n \in DOMAIN merged : merged[n].src = x
    BY <1>1, StreamFacts
  <1>4. PICK base \in Nat : \A n \in DOMAIN merged : merged[n].arrival = base + 2 * n
    BY <1>1, StreamFacts
  <1>5. ASSUME NEW m \in DOMAIN merged, NEW n \in DOMAIN merged, merged[m] = merged[n]
        PROVE  m = n
    <2>1. base + 2 * m = base + 2 * n /\ m \in Nat /\ n \in Nat
      BY <1>2, <1>4, <1>5
    <2> QED
      BY <2>1
  <1>6. ASSUME NEW n \in DOMAIN merged
        PROVE  \E i \in 1..LINE_CAP : shows(n, merged[n].src, i)
    BY <1>1, <1>2, <1>3
  <1>7. ASSUME NEW s \in Sources, NEW i \in DOMAIN stream(s), NEW j \in DOMAIN stream(s), i < j,
               NEW m \in DOMAIN merged, shows(m, s, i)
        PROVE  \E n \in DOMAIN merged : m < n /\ shows(n, s, j)
    <2>1. s = x
      <3>1. stream(s)[i].src = s
        BY StreamFacts
      <3> QED
        BY <1>3, <1>7, <3>1
    <2>2. i = m
      BY <1>1, <1>5, <1>7, <2>1
    <2> QED
      BY <1>1, <1>7, <2>1, <2>2
  <1> QED
    BY <1>5, <1>6, <1>7 DEF MergeKeepsStreams

\* The view keeps the streams.
LEMMA MergeLemma ==
    ASSUME LogTypes, Buffered
    PROVE  MergeKeepsStreams
  <1>1. url.source \in Sources \union {"both"}
    BY DEF LogTypes, Urls
  <1> QED
    BY <1>1, BothMerged, OneMerged

-----------------------------------------------------------------------------
(* Slots and event sources                                                 *)

\* A slot that is idle has no path.
LEMMA IdleIsNoPath == Idle \notin Paths
  BY LogsAssumption DEF Idle, Paths

\* A slot that has a path is in use: the control plane's, or one of the application's.
LEMMA PathFacts ==
    ASSUME url \in Urls, known \subseteq Apps, NEW s \in Slots
    PROVE  /\ pathOf(s) \in Paths \union {Idle}
           /\ pathOf(s) # Idle => IF cp # NoTarget THEN s = "cp" ELSE s \in Sources
  <1>1. cpNames \subseteq Cps /\ cp \in Cps \union {NoTarget}
    BY LogsAssumption DEF cpNames, cp
  <1>2. CASE s = "cp"
    BY <1>1, <1>2 DEF pathOf, Paths
  <1>3. CASE s # "cp"
    <2>1. s \in Sources
      BY <1>3 DEF Slots
    <2>2. viewing => url.app \in Apps /\ cp = NoTarget
      BY DEF viewing
    <2> QED
      BY <1>3, <2>1, <2>2 DEF pathOf, Paths
  <1> QED
    BY <1>2, <1>3

\* The paths of the next state are paths.
LEMMA PathTypesNext ==
    ASSUME url' \in Urls, known' \subseteq Apps
    PROVE  \A s \in Slots : pathOf(s)' \in Paths \union {Idle}
  <1> SUFFICES ASSUME NEW s \in Slots PROVE pathOf(s)' \in Paths \union {Idle}
    OBVIOUS
  <1>1. cpNames' \subseteq Cps /\ cp' \in Cps \union {NoTarget}
    BY LogsAssumption DEF cpNames, cp
  <1>2. CASE s = "cp"
    BY <1>1, <1>2 DEF pathOf, Paths
  <1>3. CASE s # "cp"
    <2>1. s \in Sources
      BY <1>3 DEF Slots
    <2>2. viewing' => url'.app \in Apps
      BY DEF viewing
    <2> QED
      BY <1>3, <2>1, <2>2 DEF pathOf, Paths
  <1> QED
    BY <1>2, <1>3

\* The paths depend on what the page selects and knows.
LEMMA SamePaths ==
    ASSUME UNCHANGED <<url, cpList, known>>
    PROVE  cp' = cp /\ viewing' = viewing /\ \A s \in Slots : pathOf(s)' = pathOf(s)
  <1>1. cp' = cp
    BY DEF cp, cpNames
  <1>2. viewing' = viewing /\ \A s : uses(s)' = uses(s)
    BY <1>1 DEF viewing, hasPath, uses
  <1> QED
    BY <1>1, <1>2 DEF pathOf

\* One event source moves its slot on, and is replaced by D.
Moves(c, t, D) ==
    /\ slots' = [slots EXCEPT ![c.slot] = t] /\ conns' = (conns \ {c}) \union D
    /\ UNCHANGED <<url, cpList, known, log>>
    /\ t \in Streams /\ t.path = c.path /\ t.status # "idle" /\ Len(t.lines) <= LINE_CAP
    /\ OfLog(t.lines, c.path)
    /\ D \subseteq EventSources /\ \A d, e \in D : d = e
    /\ \A d \in D :
          /\ d.slot = c.slot /\ d.path = c.path /\ d.cut <= log[c.path]
          /\ t.status \in IF d.state = "open" THEN {"open"} ELSE {"connecting", "error"}
    /\ t.status = "open" => \E d \in D : d.state = "open"

Streaming == slots \in [Slots -> Streams] /\ conns \subseteq EventSources

\* Such a move keeps what the invariant says of slots and event sources.
LEMMA MoveKeeps ==
    ASSUME LogTypes, Pathed, Buffered, Connected,
           NEW c \in conns, NEW t, NEW D, Moves(c, t, D)
    PROVE  Streaming' /\ Pathed' /\ Buffered' /\ Connected'
  <1>1. /\ c \in EventSources /\ c.slot \in Slots /\ c.path \in Paths
        /\ slots \in [Slots -> Streams] /\ conns \subseteq EventSources /\ log' = log
    BY DEF LogTypes, EventSources, Moves
  <1>2. slots' = [s \in Slots |-> IF s = c.slot THEN t ELSE slots[s]]
    BY <1>1 DEF Moves
  <1>3. slots'[c.slot] = t /\ \A s \in Slots : s # c.slot => slots'[s] = slots[s]
    BY <1>1, <1>2
  <1>4. Streaming'
    BY <1>1, <1>2 DEF Moves, Streaming
  <1>5. c.path = slots[c.slot].path /\ slots[c.slot].path = pathOf(c.slot) /\ t.path = c.path
    BY <1>1 DEF Connected, Pathed, Moves
  <1>6. Pathed'
    <2>1. \A s \in Slots : pathOf(s)' = pathOf(s)
      BY SamePaths DEF Moves
    <2>2. c.path # Idle /\ t.status # "idle"
      BY <1>1, IdleIsNoPath DEF Moves
    <2> QED
      BY <1>1, <1>3, <1>5, <2>1, <2>2 DEF Pathed
  <1>7. Buffered'
    BY <1>1, <1>3, <1>5 DEF Buffered, Moves, OfLog
  <1>8. \A d \in conns' : (d \in conns /\ d.slot # c.slot) \/ d \in D
    BY DEF Moves, Connected
  <1>9. \A d \in D : d.slot = c.slot
    BY DEF Moves
  <1>10. Connected'
    <2>1. \A d, e \in conns' : d.slot = e.slot => d = e
      BY <1>8, <1>9 DEF Connected, Moves
    <2>2. ASSUME NEW d \in conns'
          PROVE  /\ d.path = slots'[d.slot].path /\ d.cut <= log[d.path]
                 /\ slots'[d.slot].status \in IF d.state = "open" THEN {"open"} ELSE {"connecting", "error"}
      <3>1. CASE d \in conns /\ d.slot # c.slot
        <4>1. d.slot \in Slots
          BY <1>1, <3>1 DEF EventSources
        <4> QED
          BY <1>3, <3>1, <4>1 DEF Connected
      <3>2. CASE d \in D
        BY <1>3, <1>5, <3>2 DEF Moves
      <3> QED
        BY <1>8, <3>1, <3>2
    <2>3. ASSUME NEW s \in Slots, slots'[s].status = "open"
          PROVE  \E d \in conns' : d.slot = s /\ d.state = "open"
      <3>1. CASE s = c.slot
        BY <1>3, <1>9, <2>3, <3>1 DEF Moves
      <3>2. CASE s # c.slot
        BY <1>3, <2>3, <3>2 DEF Moves, Connected
      <3> QED
        BY <3>1, <3>2
    <2> QED
      BY <1>1, <2>1, <2>2, <2>3 DEF Connected
  <1> QED
    BY <1>4, <1>6, <1>7, <1>10

\* The answer of the server, an error or a tail, keeps it.
LEMMA AnswerKeeps ==
    ASSUME LogTypes, Pathed, Buffered, Connected, NEW c \in conns, Answer(c)
    PROVE  Streaming' /\ Pathed' /\ Buffered' /\ Connected'
  <1> DEFINE s == slots[c.slot]
  <1>1. /\ c \in EventSources /\ c.slot \in Slots /\ c.path \in Paths /\ s \in Streams
        /\ slots \in [Slots -> Streams]
    BY DEF LogTypes, EventSources
  <1>2. /\ c.path = s.path /\ c.cut <= log[c.path] /\ c.state = "connecting"
        /\ s.status \in {"connecting", "error"}
    BY <1>1 DEF Connected, Answer
  <1>3. UNCHANGED <<url, cpList, known, log>>
    BY DEF Answer
  <1>4. OfLog(s.lines, c.path) /\ Len(s.lines) <= LINE_CAP
    BY <1>1, <1>2 DEF Buffered, OfLog, Streams
  <1>5. log[c.path] \in Nat
    BY <1>1 DEF LogTypes
  <1>6. CASE c.path \in Logged /\ (c.slot # "cp" => c.path[1] \in running)
    <2> DEFINE t == [s EXCEPT !.status = "open"]
               d == [c EXCEPT !.state = "open", !.cut = log[c.path], !.next = 1]
    <2>1. slots' = [slots EXCEPT ![c.slot] = t] /\ conns' = (conns \ {c}) \union {d}
      BY <1>1, <1>6 DEF Answer, setStatus
    <2>2. /\ t \in Streams /\ t.path = s.path /\ t.lines = s.lines /\ t.status = "open"
      BY <1>1 DEF Streams
    <2>3. /\ d \in EventSources /\ d.slot = c.slot /\ d.path = c.path /\ d.state = "open"
          /\ d.cut = log[c.path]
      <3> DEFINE e == [c EXCEPT !.state = "open"]
                 f == [e EXCEPT !.cut = log[c.path]]
      <3>1. e \in EventSources /\ e.slot = c.slot /\ e.path = c.path /\ e.state = "open"
        BY <1>1 DEF EventSources
      <3>2. d = [f EXCEPT !.next = 1]
        BY Zenon
      <3> HIDE DEF e, d
      <3>3. /\ f \in EventSources /\ f.slot = c.slot /\ f.path = c.path /\ f.state = "open"
            /\ f.cut = log[c.path]
        BY <1>5, <3>1 DEF EventSources
      <3> HIDE DEF f
      <3> QED
        BY <3>2, <3>3 DEF EventSources
    <2> HIDE DEF t, d
    <2>4. Moves(c, t, {d})
      BY <1>2, <1>3, <1>4, <1>5, <2>1, <2>2, <2>3 DEF Moves
    <2> QED
      BY <2>4, MoveKeeps
  <1>7. CASE ~(c.path \in Logged /\ (c.slot # "cp" => c.path[1] \in running))
    <2> DEFINE t == [s EXCEPT !.status = "closed"]
    <2>1. slots' = [slots EXCEPT ![c.slot] = t] /\ conns' = (conns \ {c}) \union {}
      BY <1>1, <1>7 DEF Answer, setStatus
    <2>2. /\ t \in Streams /\ t.path = s.path /\ t.lines = s.lines /\ t.status = "closed"
      BY <1>1 DEF Streams
    <2> HIDE DEF t
    <2>3. Moves(c, t, {})
      BY <1>2, <1>3, <1>4, <2>1, <2>2 DEF Moves
    <2> QED
      BY <2>3, MoveKeeps
  <1> QED
    BY <1>6, <1>7

\* So does a connection that breaks.
LEMMA OnerrorKeeps ==
    ASSUME LogTypes, Pathed, Buffered, Connected, NEW c \in conns, onerror(c)
    PROVE  Streaming' /\ Pathed' /\ Buffered' /\ Connected'
  <1> DEFINE s == slots[c.slot]
             t == [s EXCEPT !.status = "error"]
             d == opened(c.slot, c.path)
  <1>1. /\ c \in EventSources /\ c.slot \in Slots /\ c.path \in Paths /\ s \in Streams
        /\ slots \in [Slots -> Streams] /\ log[c.path] \in Nat
    BY DEF LogTypes, EventSources
  <1>2. c.path = s.path
    BY <1>1 DEF Connected
  <1>3. UNCHANGED <<url, cpList, known, log>>
    BY DEF onerror
  <1>4. OfLog(s.lines, c.path) /\ Len(s.lines) <= LINE_CAP
    BY <1>1, <1>2 DEF Buffered, OfLog, Streams
  <1>5. slots' = [slots EXCEPT ![c.slot] = t] /\ conns' = (conns \ {c}) \union {d}
    BY <1>1 DEF onerror, setStatus
  <1>6. /\ t \in Streams /\ t.path = s.path /\ t.lines = s.lines /\ t.status = "error"
    BY <1>1 DEF Streams
  <1>7. d \in EventSources /\ d.slot = c.slot /\ d.path = c.path /\ d.state = "connecting" /\ d.cut = 0
    BY <1>1 DEF EventSources, opened
  <1> HIDE DEF t, d
  <1>8. Moves(c, t, {d})
    BY <1>1, <1>2, <1>3, <1>4, <1>5, <1>6, <1>7 DEF Moves
  <1> QED
    BY <1>8, MoveKeeps

\* A line of its log appended to a buffer leaves it one of that log, at its cap too.
LEMMA Appended ==
    ASSUME NEW p \in Paths, NEW lines, OfLog(lines, p), NEW l \in Lines, l[1] = p,
           l[2] \in DOMAIN Stamp[p]
    PROVE  LET new == capped(Append(lines, l))
           IN  OfLog(new, p) /\ Len(new) <= LINE_CAP
  <1> DEFINE all == Append(lines, l)
             new == capped(all)
  <1>1. lines \in Seq(Lines) /\ Len(lines) \in Nat
    BY DEF OfLog
  <1>2. /\ all \in Seq(Lines) /\ DOMAIN all = 1..(Len(lines) + 1) /\ Len(all) = Len(lines) + 1
        /\ \A i \in 1..(Len(lines) + 1) : all[i] = IF i = Len(lines) + 1 THEN l ELSE lines[i]
        /\ DOMAIN lines = 1..Len(lines)
    BY <1>1
  <1> HIDE DEF all
  <1>3. PICK d \in Nat :
           /\ DOMAIN new = 1..(Len(all) - d) /\ d <= Len(all)
           /\ \A i \in DOMAIN new : i + d \in DOMAIN all /\ new[i] = all[i + d]
    BY <1>2, CappedFacts
  <1>4. new \in Seq(Lines) /\ Len(new) <= LINE_CAP
    BY <1>2, CappedFacts
  <1> HIDE DEF new
  <1>5. \A i \in DOMAIN all : all[i][1] = p /\ all[i][2] \in DOMAIN Stamp[p]
    BY <1>1, <1>2 DEF OfLog
  <1>6. OfLog(new, p)
    BY <1>3, <1>4, <1>5 DEF OfLog
  <1> QED
    BY <1>4, <1>6 DEF new, all

\* So does a line, which always counts as an arrival.
LEMMA OnmessageKeeps ==
    ASSUME LogTypes, Pathed, Buffered, Connected, NEW c \in conns, onmessage(c)
    PROVE  /\ Streaming' /\ Pathed' /\ Buffered' /\ Connected'
           /\ revision' # revision
  <1> DEFINE s == slots[c.slot]
             lines == sent(c.path, c.cut, log[c.path])
             l == lines[c.next]
             new == capped(Append(s.lines, l))
             t == [s EXCEPT !.lines = new, !.revision = @ + 1]
             d == [c EXCEPT !.next = @ + 1]
  <1>1. /\ c \in EventSources /\ c.slot \in Slots /\ c.path \in Paths /\ s \in Streams
        /\ slots \in [Slots -> Streams] /\ log[c.path] \in Nat /\ log[c.path] <= 2 * Len(Stamp[c.path])
        /\ c.cut \in Nat /\ c.next \in Nat \ {0}
    BY DEF LogTypes, EventSources
  <1>2. /\ c.path = s.path /\ c.cut <= log[c.path] /\ c.state = "open" /\ c.next \in DOMAIN lines
        /\ s.status = "open"
    BY <1>1 DEF Connected, onmessage
  <1>3. UNCHANGED <<url, cpList, known, log>>
    BY DEF onmessage
  <1>4. OfLog(s.lines, c.path)
    BY <1>1, <1>2 DEF Buffered, OfLog, Streams
  <1>5. slots' = [slots EXCEPT ![c.slot] = t] /\ conns' = (conns \ {c}) \union {d}
    BY <1>1 DEF onmessage
  <1>6. /\ l \in Lines /\ l[1] = c.path /\ l[2] \in DOMAIN Stamp[c.path]
    BY <1>1, <1>2, SentFacts
  <1> HIDE DEF l, lines
  <1>7. OfLog(new, c.path) /\ Len(new) <= LINE_CAP
    BY <1>1, <1>4, <1>6, Appended
  <1> HIDE DEF new
  <1>8. /\ t \in Streams /\ t.path = s.path /\ t.lines = new /\ t.status = "open"
        /\ t.revision = s.revision + 1
    <2>1. new \in Seq(Lines) /\ s.revision + 1 \in Nat
      BY <1>1, <1>7 DEF OfLog, Streams
    <2> QED
      BY <1>1, <1>2, <2>1 DEF Streams
  <1>9. /\ d \in EventSources /\ d.slot = c.slot /\ d.path = c.path /\ d.state = "open"
        /\ d.cut = c.cut /\ d.next = c.next + 1
    BY <1>1, <1>2 DEF EventSources
  <1> HIDE DEF t, d
  <1>10. Moves(c, t, {d})
    BY <1>1, <1>2, <1>3, <1>5, <1>7, <1>8, <1>9 DEF Moves
  <1>11. revision' # revision
    <2>1. slots'[c.slot].revision = s.revision + 1 /\ \A x \in Slots : x # c.slot => slots'[x] = slots[x]
      BY <1>1, <1>5, <1>8
    <2>2. cp' = cp
      BY <1>3, SamePaths
    <2>3. /\ \A x \in Slots : slots[x].revision \in Nat
          /\ "cp" \in Slots /\ "daprd" \in Slots /\ "app" \in Slots
      BY <1>1 DEF Streams, Slots, Sources
    <2>4. IF cp # NoTarget THEN c.slot = "cp" ELSE c.slot \in Sources
      <3>1. pathOf(c.slot) # Idle
        BY <1>1, <1>2, IdleIsNoPath DEF Pathed
      <3> QED
        BY <1>1, <3>1, PathFacts DEF LogTypes
    <2> QED
      BY <2>1, <2>2, <2>3, <2>4 DEF revision, Sources
  <1> QED
    BY <1>10, <1>11, MoveKeeps

\* Hence every step of a stream keeps the invariant.
LEMMA StreamStepKeeps ==
    ASSUME LogsInv, NEW c \in conns, Answer(c) \/ onmessage(c) \/ onerror(c)
    PROVE  LogsInv'
  <1>1. Streaming' /\ Pathed' /\ Buffered' /\ Connected'
    BY AnswerKeeps, OnmessageKeeps, OnerrorKeeps DEF LogsInv
  <1>2. LogTypes'
    BY <1>1 DEF LogsInv, LogTypes, Streaming, Answer, onmessage, onerror
  <1>3. FollowPinned'
    <2>1. CASE onmessage(c)
      BY <2>1, OnmessageKeeps DEF LogsInv, FollowPinned, onmessage
    <2>2. CASE Answer(c) \/ onerror(c)
      BY <2>2 DEF LogsInv, FollowPinned, Answer, onerror
    <2> QED
      BY <2>1, <2>2
  <1> QED
    BY <1>1, <1>2, <1>3 DEF LogsInv

\* A render starts the slots over whose path changed and leaves the others alone.
LEMMA RenderFacts ==
    ASSUME LogTypes, url' \in Urls, known' \subseteq Apps, Render
    PROVE  /\ slots' \in [Slots -> Streams] /\ conns' \subseteq EventSources
           /\ \A s \in Slots :
                 IF pathOf(s)' = slots[s].path THEN slots'[s] = slots[s]
                 ELSE /\ slots'[s].path = pathOf(s)' /\ slots'[s].lines = <<>>
                      /\ slots'[s].status = IF pathOf(s)' = Idle THEN "idle" ELSE "connecting"
           /\ \A c \in conns' :
                 \/ c \in conns /\ pathOf(c.slot)' = slots[c.slot].path
                 \/ \E s \in Slots : pathOf(s)' \notin {Idle, slots[s].path} /\ c = opened(s, pathOf(s)')
           /\ \A c \in conns : pathOf(c.slot)' = slots[c.slot].path => c \in conns'
  <1> DEFINE np == [s \in Slots |-> pathOf(s)']
             keepsRevision(s) ==
                 (viewing /\ viewing' /\ s # "cp") \/ (s = "cp" /\ cp # NoTarget /\ cp' # NoTarget)
             fresh(s) == [path |-> np[s], lines |-> <<>>,
                          revision |-> IF keepsRevision(s) THEN slots[s].revision ELSE 0,
                          status |-> IF np[s] = Idle THEN "idle" ELSE "connecting"]
  <1>1. \A s \in Slots : np[s] = pathOf(s)' /\ np[s] \in Paths \union {Idle}
    BY PathTypesNext
  <1>2. slots' = [s \in Slots |-> IF np[s] = slots[s].path THEN slots[s] ELSE fresh(s)]
    BY DEF Render
  <1>3. /\ \A c \in conns' :
              \/ c \in conns /\ pathOf(c.slot)' = slots[c.slot].path
              \/ \E s \in Slots : pathOf(s)' \notin {Idle, slots[s].path} /\ c = opened(s, pathOf(s)')
        /\ \A c \in conns : pathOf(c.slot)' = slots[c.slot].path => c \in conns'
    BY DEF Render, kept
  <1> HIDE DEF np, keepsRevision
  <1>4. slots \in [Slots -> Streams] /\ conns \subseteq EventSources
    BY DEF LogTypes
  <1>5. ASSUME NEW s \in Slots
        PROVE  fresh(s) \in Streams
    <2>1. slots[s].revision \in Nat
      BY <1>4 DEF Streams
    <2>2. <<>> \in Seq(Lines)
      OBVIOUS
    <2> QED
      BY <1>1, <2>1, <2>2 DEF Streams
  <1>6. slots' \in [Slots -> Streams]
    <2> HIDE DEF fresh
    <2> QED
      BY <1>2, <1>4, <1>5
  <1>7. conns' \subseteq EventSources
    <2>1. ASSUME NEW s \in Slots, pathOf(s)' \notin {Idle, slots[s].path}
          PROVE  opened(s, pathOf(s)') \in EventSources
      BY <1>1, <2>1 DEF opened, EventSources
    <2> QED
      BY <1>3, <1>4, <2>1
  <1>8. ASSUME NEW s \in Slots
        PROVE  IF pathOf(s)' = slots[s].path THEN slots'[s] = slots[s]
               ELSE /\ slots'[s].path = pathOf(s)' /\ slots'[s].lines = <<>>
                    /\ slots'[s].status = IF pathOf(s)' = Idle THEN "idle" ELSE "connecting"
    BY <1>1, <1>2
  <1> QED
    BY <1>3, <1>6, <1>7, <1>8

\* So a render keeps the invariant.
LEMMA RenderKeeps ==
    ASSUME LogTypes, Pathed, Buffered, Connected, FollowPinned,
           url' \in Urls, known' \subseteq Apps, log' = log, following' = following, Render
    PROVE  /\ Streaming' /\ Pathed' /\ Buffered' /\ Connected' /\ FollowPinned'
           /\ at' \in {"bottom", "away", "widened"}
  <1> DEFINE new(s) == pathOf(s)'
  <1>1. Streaming'
    BY RenderFacts DEF Streaming
  <1>2. \A s \in Slots :
            IF new(s) = slots[s].path THEN slots'[s] = slots[s]
            ELSE /\ slots'[s].path = new(s) /\ slots'[s].lines = <<>>
                 /\ slots'[s].status = IF new(s) = Idle THEN "idle" ELSE "connecting"
    BY RenderFacts
  <1>3. /\ \A c \in conns' :
              \/ c \in conns /\ new(c.slot) = slots[c.slot].path
              \/ \E s \in Slots : new(s) \notin {Idle, slots[s].path} /\ c = opened(s, new(s))
        /\ \A c \in conns : new(c.slot) = slots[c.slot].path => c \in conns'
    BY RenderFacts
  <1>4. conns \subseteq EventSources /\ \A c \in conns : c.slot \in Slots
    BY DEF LogTypes, EventSources
  <1>5. Pathed'
    <2>1. ASSUME NEW s \in Slots
          PROVE  slots'[s].path = new(s) /\ (slots'[s].status = "idle") = (slots'[s].path = Idle)
      BY <1>2 DEF Pathed
    <2> QED
      BY <2>1 DEF Pathed
  <1> HIDE DEF new
  <1>6. LINE_CAP \in Nat \ {0}
    BY LogsAssumption
  <1>7. Buffered'
    <2>1. ASSUME NEW s \in Slots
          PROVE  /\ Len(slots'[s].lines) <= LINE_CAP
                 /\ \A i \in DOMAIN slots'[s].lines :
                       /\ slots'[s].lines[i][1] = slots'[s].path
                       /\ slots'[s].lines[i][2] \in DOMAIN Stamp[slots'[s].path]
      <3>1. CASE new(s) = slots[s].path
        BY <1>2, <3>1 DEF Buffered
      <3>2. CASE new(s) # slots[s].path
        BY <1>2, <1>6, <3>2
      <3> QED
        BY <3>1, <3>2
    <2> QED
      BY <2>1 DEF Buffered
  <1>8. \A c \in conns' :
            \/ c \in conns /\ slots'[c.slot] = slots[c.slot] /\ new(c.slot) = slots[c.slot].path
            \/ /\ c.slot \in Slots /\ c = opened(c.slot, new(c.slot))
               /\ new(c.slot) \notin {Idle, slots[c.slot].path}
               /\ slots'[c.slot].path = new(c.slot) /\ slots'[c.slot].status = "connecting"
               /\ c.path = new(c.slot) /\ c.state = "connecting" /\ c.cut = 0
    BY <1>2, <1>3, <1>4 DEF opened
  <1>9. Connected'
    <2>1. ASSUME NEW c \in conns', NEW d \in conns', c.slot = d.slot
          PROVE  c = d
      BY <1>8, <2>1 DEF Connected
    <2>2. ASSUME NEW c \in conns'
          PROVE  /\ c.path = slots'[c.slot].path /\ c.cut <= log[c.path]
                 /\ slots'[c.slot].status \in IF c.state = "open" THEN {"open"} ELSE {"connecting", "error"}
      <3>1. CASE c \in conns /\ slots'[c.slot] = slots[c.slot]
        BY <3>1 DEF Connected
      <3>2. CASE /\ slots'[c.slot].path = new(c.slot) /\ slots'[c.slot].status = "connecting"
                 /\ c.path = new(c.slot) /\ c.state = "connecting" /\ c.cut = 0
        <4>1. c.path \in Paths
          BY <1>1 DEF Streaming, EventSources
        <4>2. log[c.path] \in Nat
          BY <4>1 DEF LogTypes
        <4> QED
          BY <3>2, <4>2
      <3> QED
        BY <1>8, <3>1, <3>2
    <2>3. ASSUME NEW s \in Slots, slots'[s].status = "open"
          PROVE  \E c \in conns' : c.slot = s /\ c.state = "open"
      <3>1. new(s) = slots[s].path /\ slots'[s] = slots[s]
        BY <1>2, <2>3
      <3>2. PICK c \in conns : c.slot = s /\ c.state = "open"
        BY <2>3, <3>1 DEF Connected
      <3> QED
        BY <1>3, <3>1, <3>2
    <2> QED
      BY <2>1, <2>2, <2>3 DEF Connected
  <1>10. FollowPinned' /\ at' \in {"bottom", "away", "widened"}
    BY DEF FollowPinned, Render, LogTypes
  <1> QED
    BY <1>1, <1>5, <1>7, <1>9, <1>10

\* The steps that render: another target or source, the application read, the services read.
LEMMA RenderStepKeeps ==
    ASSUME LogsInv,
           \/ \E k, c : /\ k \in Apps \union {NoTarget} /\ c \in Cps \union {NoTarget}
                        /\ onTargetChange(k, c)
           \/ \E s \in Sources : toggleSource(s)
           \/ \E k \in Apps : useApp(k)
           \/ useControlPlane
    PROVE  LogsInv'
  <1>1. /\ url' \in Urls /\ known' \subseteq Apps /\ cpList' \in {"pending", "read", "error"}
        /\ UNCHANGED <<running, log, following, levels>> /\ Render
    <2>1. url \in Urls /\ known \subseteq Apps /\ cpList \in {"pending", "read", "error"}
      BY DEF LogsInv, LogTypes
    <2>2. CASE \E k, c : /\ k \in Apps \union {NoTarget} /\ c \in Cps \union {NoTarget}
                         /\ onTargetChange(k, c)
      BY <2>1, <2>2 DEF onTargetChange, Urls
    <2>3. CASE \E s \in Sources : toggleSource(s)
      <3>1. PICK s \in Sources : toggleSource(s)
        BY <2>3
      <3> DEFINE on == {x \in Sources : uses(x)}
                 next == IF s \in on THEN on \ {s} ELSE on \union {s}
                 to == IF next = Sources THEN "both" ELSE CHOOSE x \in next : TRUE
      <3>2. next # {} /\ next \subseteq Sources /\ url' = [url EXCEPT !.source = to]
        BY <3>1 DEF toggleSource
      <3>3. to \in Sources \union {"both"}
        <4> HIDE DEF next
        <4>1. (CHOOSE x \in next : TRUE) \in next
          BY <3>2
        <4> QED
          BY <3>2, <4>1
      <3> HIDE DEF to
      <3>4. url' \in Urls
        BY <2>1, <3>2, <3>3 DEF Urls
      <3> QED
        BY <2>1, <3>1, <3>4 DEF toggleSource
    <2>4. CASE \E k \in Apps : useApp(k)
      BY <2>1, <2>4 DEF useApp
    <2>5. CASE useControlPlane
      BY <2>1, <2>5 DEF useControlPlane
    <2> QED
      BY <2>2, <2>3, <2>4, <2>5
  <1>2. /\ Streaming' /\ Pathed' /\ Buffered' /\ Connected' /\ FollowPinned'
        /\ at' \in {"bottom", "away", "widened"}
    BY <1>1, RenderKeeps DEF LogsInv
  <1>3. LogTypes'
    BY <1>1, <1>2 DEF LogsInv, LogTypes, Streaming
  <1> QED
    BY <1>2, <1>3 DEF LogsInv

\* The steps that leave the streams alone.
LEMMA QuietStepKeeps ==
    ASSUME LogsInv,
           \/ \E l \in Levels : toggleLevel(l)
           \/ handleFollowToggle
           \/ \E to \in {"bottom", "away"} : handleScroll(to)
           \/ \E p \in Logged : Write(p)
           \/ \E k \in Apps : ComeAndGo(k)
           \/ UNCHANGED logVars
    PROVE  LogsInv'
  <1>1. UNCHANGED <<url, cpList, known, slots, conns>>
    BY DEF toggleLevel, handleFollowToggle, handleScroll, Write, ComeAndGo, logVars, pageVars
  <1>2. \A s \in Slots : pathOf(s)' = pathOf(s)
    BY <1>1, SamePaths
  <1>3. LogTypes' /\ \A p \in Paths : log[p] <= log'[p]
    <2>1. CASE \E p \in Logged : Write(p)
      <3>1. PICK p \in Logged : Write(p)
        BY <2>1
      <3>2. p \in Paths
        BY LogsAssumption
      <3>3. log \in [Paths -> Nat] /\ log' = [log EXCEPT ![p] = @ + 1] /\ log[p] < 2 * Len(Stamp[p])
        BY <3>1 DEF LogsInv, LogTypes, Write
      <3>4. Stamp[p] \in Seq(Nat) /\ Len(Stamp[p]) \in Nat
        BY <3>2, StampAssumption
      <3>5. log' \in [Paths -> Nat] /\ \A x \in Paths : log'[x] = IF x = p THEN log[x] + 1 ELSE log[x]
        BY <3>2, <3>3
      <3>6. \A x \in Paths : log[x] \in Nat /\ log[x] <= 2 * Len(Stamp[x])
        BY <3>3 DEF LogsInv, LogTypes
      <3>7. \A x \in Paths : log'[x] <= 2 * Len(Stamp[x]) /\ log[x] <= log'[x]
        BY <3>3, <3>4, <3>5, <3>6
      <3> QED
        BY <1>1, <3>1, <3>5, <3>7 DEF LogsInv, LogTypes, Write, pageVars
    <2>2. CASE ~\E p \in Logged : Write(p)
      <3>1. log' = log
        BY <2>2 DEF toggleLevel, handleFollowToggle, handleScroll, ComeAndGo, logVars
      <3>2. running' \subseteq Apps
        BY <2>2 DEF LogsInv, LogTypes, toggleLevel, handleFollowToggle, handleScroll, ComeAndGo, logVars
      <3>3. following' \in BOOLEAN
        BY <2>2 DEF LogsInv, LogTypes, toggleLevel, handleFollowToggle, handleScroll, ComeAndGo, logVars, pageVars
      <3>4. levels' \subseteq Levels
        BY <2>2 DEF LogsInv, LogTypes, toggleLevel, handleFollowToggle, handleScroll, ComeAndGo, logVars, pageVars
      <3>5. at' \in {"bottom", "away", "widened"}
        BY <2>2 DEF LogsInv, LogTypes, toggleLevel, handleFollowToggle, handleScroll, ComeAndGo, logVars, pageVars
      <3>6. log \in [Paths -> Nat] /\ \A p \in Paths : log[p] <= log[p]
        BY DEF LogsInv, LogTypes
      <3> QED
        BY <1>1, <3>1, <3>2, <3>3, <3>4, <3>5, <3>6 DEF LogsInv, LogTypes
    <2> QED
      BY <2>1, <2>2
  <1>4. Pathed'
    BY <1>1, <1>2 DEF LogsInv, Pathed
  <1>5. Buffered'
    BY <1>1 DEF LogsInv, Buffered
  <1>6. Connected'
    <2>1. ASSUME NEW c \in conns
          PROVE  c.cut <= log'[c.path]
      <3>1. c.path \in Paths /\ c.cut \in Nat /\ c.cut <= log[c.path] /\ log[c.path] \in Nat
        BY DEF LogsInv, LogTypes, EventSources, Connected
      <3>2. log'[c.path] \in Nat /\ log[c.path] <= log'[c.path]
        BY <1>3, <3>1 DEF LogTypes
      <3> QED
        BY <3>1, <3>2
    <2> QED
      BY <1>1, <2>1 DEF LogsInv, Connected
  <1>7. FollowPinned'
    BY DEF LogsInv, FollowPinned, toggleLevel, handleFollowToggle, handleScroll, Write, ComeAndGo, logVars, pageVars
  <1> QED
    BY <1>3, <1>4, <1>5, <1>6, <1>7 DEF LogsInv

\* It holds at first, whatever link was followed.
LEMMA InitLogsInv ==
    ASSUME LogsInit
    PROVE  LogsInv
  <1>1. url \in Urls /\ known \subseteq Apps /\ LINE_CAP \in Nat \ {0}
    BY LogsAssumption DEF LogsInit, Urls
  <1>2. \A s \in Slots : pathOf(s) \in Paths \union {Idle}
    BY <1>1, PathFacts
  <1> DEFINE fresh(s) == [path |-> pathOf(s), lines |-> <<>>, revision |-> 0,
                          status |-> IF pathOf(s) = Idle THEN "idle" ELSE "connecting"]
  <1>3. slots = [s \in Slots |-> fresh(s)]
    BY DEF LogsInit
  <1>4. \A s \in Slots :
            /\ slots[s] \in Streams /\ slots[s].path = pathOf(s) /\ slots[s].lines = <<>>
            /\ slots[s].status = IF pathOf(s) = Idle THEN "idle" ELSE "connecting"
    BY <1>2, <1>3 DEF Streams
  <1>5. slots \in [Slots -> Streams]
    BY <1>3, <1>4
  <1>6. \A c \in conns :
            /\ c \in EventSources /\ c = opened(c.slot, pathOf(c.slot)) /\ c.slot \in Slots
            /\ c.path = pathOf(c.slot) /\ pathOf(c.slot) # Idle /\ c.state = "connecting" /\ c.cut = 0
    BY <1>2 DEF LogsInit, EventSources, opened
  <1>7. LogTypes
    <2>1. log \in [Paths -> Nat] /\ \A p \in Paths : log[p] <= 2 * Len(Stamp[p])
      BY LogsAssumption DEF LogsInit
    <2> QED
      BY <1>1, <1>5, <1>6, <2>1 DEF LogsInit, LogTypes
  <1>8. Pathed
    BY <1>4 DEF Pathed
  <1>9. Buffered
    BY <1>1, <1>4 DEF Buffered
  <1>10. Connected
    <2>1. \A c \in conns : c.cut <= log[c.path]
      <3> SUFFICES ASSUME NEW c \in conns PROVE c.cut <= log[c.path]
        OBVIOUS
      <3>1. c.path \in Paths /\ c.cut = 0
        BY <1>6 DEF EventSources
      <3> QED
        BY <1>7, <3>1 DEF LogTypes
    <2>2. \A s \in Slots : slots[s].status # "open"
      BY <1>4
    <2>3. \A c \in conns : slots[c.slot].path = c.path /\ slots[c.slot].status = "connecting"
      BY <1>4, <1>6
    <2> QED
      BY <1>6, <2>1, <2>2, <2>3 DEF Connected
  <1>11. FollowPinned
    BY DEF LogsInit, FollowPinned
  <1> QED
    BY <1>7, <1>8, <1>9, <1>10, <1>11 DEF LogsInv

\* Every step keeps it.
LEMMA LogsNextKeeps ==
    ASSUME LogsInv, [LogsNext]_logVars
    PROVE  LogsInv'
  <1>1. CASE \E c \in conns : Answer(c) \/ onmessage(c) \/ onerror(c)
    BY <1>1, StreamStepKeeps
  <1>2. CASE \/ \E k \in running : onTargetChange(k, NoTarget)
             \/ \E c \in cpNames : onTargetChange(NoTarget, c)
             \/ onTargetChange(NoTarget, NoTarget)
    <2>1. running \subseteq Apps /\ cpNames \subseteq Cps
      BY LogsAssumption DEF LogsInv, LogTypes, cpNames
    <2>2. \E k, c : k \in Apps \union {NoTarget} /\ c \in Cps \union {NoTarget} /\ onTargetChange(k, c)
      BY <1>2, <2>1
    <2> QED
      BY <2>2, RenderStepKeeps
  <1>3. CASE (\E s \in Sources : toggleSource(s)) \/ (\E k \in Apps : useApp(k)) \/ useControlPlane
    BY <1>3, RenderStepKeeps
  <1>4. CASE \/ \E l \in Levels : toggleLevel(l)
             \/ handleFollowToggle
             \/ \E to \in {"bottom", "away"} : handleScroll(to)
             \/ \E p \in Logged : Write(p)
             \/ \E k \in Apps : ComeAndGo(k)
             \/ UNCHANGED logVars
    BY <1>4, QuietStepKeeps
  <1> QED
    BY <1>1, <1>2, <1>3, <1>4 DEF LogsNext

\* What the invariant says of the view.
LEMMA InvImpliesFaithful ==
    ASSUME LogsInv
    PROVE  ViewFaithful
  <1>1. MergeKeepsStreams /\ FollowPinned
    BY MergeLemma DEF LogsInv
  <1>2. inUse \subseteq Slots
    BY DEF inUse, Slots
  <1>3. ASSUME status = "open", NEW s \in inUse
        PROVE  \E c \in conns : c.slot = s /\ c.path = slots[s].path /\ c.state = "open"
    <2>1. slots[s].status \in {"idle", "connecting", "open", "error", "closed"}
      BY <1>2 DEF LogsInv, LogTypes, Streams
    <2>2. slots[s].status = "open"
      BY <1>3, <2>1 DEF status, combineStatuses
    <2> QED
      BY <1>2, <2>2 DEF LogsInv, Connected
  <1>4. BufferFollowsTarget
    BY <1>3 DEF LogsInv, Buffered, BufferFollowsTarget
  <1> QED
    BY <1>1, <1>4 DEF ViewFaithful

\* The page's state has its type, a slot the path the page gives it, and a buffer its bound.
THEOREM LogsTypeCorrect == LogsSpec => []LogsTypeOK
  <1>1. LogsInv => LogsTypeOK
    BY DEF LogsInv, LogTypes, Pathed, Buffered, LogsTypeOK, Urls, EventSources
  <1>2. LogsInv /\ [LogsNext]_logVars => LogsInv'
    BY LogsNextKeeps
  <1> QED
    BY <1>1, <1>2, InitLogsInv, PTL DEF LogsSpec

\* The view shows the log that is selected and says live only of streams that are connected,
\* keeps two lines of a stream in the order they arrived unless the clock goes back between
\* them in a view of both, and stays at the bottom in follow mode.
THEOREM ViewIsFaithful == LogsSpec => []ViewFaithful
  <1>1. LogsInv => ViewFaithful
    BY InvImpliesFaithful
  <1>2. LogsInv /\ [LogsNext]_logVars => LogsInv'
    BY LogsNextKeeps
  <1> QED
    BY <1>1, <1>2, InitLogsInv, PTL DEF LogsSpec

-----------------------------------------------------------------------------
(* The resiliency builder                                                  *)

\* What a cascade makes of one leg.
LEMMA RemapRefLemma ==
    ASSUME NEW leg \in PolicyRefs, NEW f \in Fields, NEW from, NEW to \in Names \union {None}
    PROVE  /\ remapRef(leg, f, from, to) \in PolicyRefs
           /\ \A g \in Fields : remapRef(leg, f, from, to)[g] =
                IF g = f /\ leg[f] = from THEN to ELSE leg[g]
  BY DEF PolicyRefs, remapRef

\* It leaves no reference to the old name.
LEMMA RemapExists ==
    ASSUME NEW leg \in PolicyRefs, NEW f \in Fields, NEW from, NEW to \in Names \union {None},
           \A g \in Fields : leg[g] \in policies[g] \union {None},
           \A g \in Fields : policies[g] \subseteq policies'[g] \union (IF g = f THEN {from} ELSE {}),
           to \in policies'[f] \union {None}
    PROVE  \A g \in Fields : remapRef(leg, f, from, to)[g] \in policies'[g] \union {None}
  BY RemapRefLemma

\* A cascade keeps the types of the targets and their soundness, if what it takes out of the
\* policies is the old name and the new one is there.
LEMMA CascadeLemma ==
    ASSUME TypeOK, TargetsSound, NEW f \in Fields, NEW from, NEW to \in Names \union {None},
           remapPolicyRefs(f, from, to),
           \A g \in Fields : policies[g] \subseteq policies'[g] \union (IF g = f THEN {from} ELSE {}),
           to \in policies'[f] \union {None}
    PROVE  /\ TargetMap(apps') /\ \A n \in DOMAIN apps' : AppTarget(apps'[n])
           /\ TargetMap(actors') /\ \A n \in DOMAIN actors' : ActorTarget(actors'[n])
           /\ TargetMap(components') /\ \A n \in DOMAIN components' : ComponentTarget(components'[n])
           /\ TargetsSound'
<1>1. /\ DOMAIN apps' = DOMAIN apps /\ DOMAIN actors' = DOMAIN actors
      /\ DOMAIN components' = DOMAIN components
      /\ TargetMap(apps') /\ TargetMap(actors') /\ TargetMap(components')
  BY DEF remapPolicyRefs, TargetMap, TypeOK
<1>2. ASSUME NEW n \in DOMAIN apps
      PROVE  AppTarget(apps'[n]) /\ Exists(apps[n])'
  <2>1. apps[n] \in PolicyRefs /\ \A g \in Fields : apps[n][g] \in policies[g] \union {None}
    BY <1>2 DEF TypeOK, AppTarget, TargetsSound, RefsExist, Exists
  <2>2. apps'[n] = remapRef(apps[n], f, from, to)
    BY <1>2 DEF remapPolicyRefs
  <2>. QED  BY <2>1, <2>2, RemapRefLemma, RemapExists DEF AppTarget, Exists
<1>3. ASSUME NEW n \in DOMAIN actors
      PROVE  /\ ActorTarget(actors'[n]) /\ Exists(actors[n].refs)'
             /\ actors'[n].scoped => actors'[n].refs["circuitBreaker"] # None
  <2> DEFINE a == actors[n]
  <2>1. /\ a \in [refs : PolicyRefs, scoped : BOOLEAN]
        /\ \A g \in Fields : a.refs[g] \in policies[g] \union {None}
        /\ a.scoped => a.refs["circuitBreaker"] # None
    BY <1>3 DEF TypeOK, ActorTarget, TargetsSound, RefsExist, ScopeNeedsBreaker, Exists
  <2>2. actors'[n] = remapActor(a, f, from, to)
    BY <1>3 DEF remapPolicyRefs
  <2>3. /\ remapRef(a.refs, f, from, to) \in PolicyRefs
        /\ \A g \in Fields : remapRef(a.refs, f, from, to)[g] =
                IF g = f /\ a.refs[f] = from THEN to ELSE a.refs[g]
        /\ \A g \in Fields : remapRef(a.refs, f, from, to)[g] \in policies'[g] \union {None}
    BY <2>1, RemapRefLemma, RemapExists
  <2>4. "circuitBreaker" \in Fields
    BY DEF Fields
  <2>. HIDE DEF a
  <2>5. actors'[n] = [refs |-> remapRef(a.refs, f, from, to),
                      scoped |-> a.scoped /\ ~(f = "circuitBreaker" /\ a.refs[f] = from
                                               /\ to = None)]
    BY <2>2 DEF remapActor
  <2>6. ActorTarget(actors'[n])
    BY <2>1, <2>3, <2>5 DEF ActorTarget
  <2>7. Exists(actors[n].refs)'
    BY <2>3, <2>5 DEF Exists
  <2>8. ASSUME actors'[n].scoped
        PROVE  actors'[n].refs["circuitBreaker"] # None
    <3> DEFINE dropped == f = "circuitBreaker" /\ a.refs[f] = from /\ to = None
    <3>1. actors'[n].refs = remapRef(a.refs, f, from, to)
      BY <2>5
    <3>2. actors'[n].scoped = (a.scoped /\ ~dropped)
      BY <2>5
    <3>3. a.scoped /\ ~dropped
      <4> HIDE DEF dropped
      <4>. QED  BY <2>8, <3>2, Zenon
    <3>4. a.refs["circuitBreaker"] # None
      BY <2>1, <3>3
    <3>. QED  BY <2>3, <2>4, <3>1, <3>3, <3>4
  <2>. QED  BY <2>6, <2>7, <2>8
<1>4. ASSUME NEW n \in DOMAIN components
      PROVE  /\ ComponentTarget(components'[n])
             /\ \A d \in DOMAIN components'[n] : Exists(components[n][d])'
             /\ \A d, e \in DOMAIN components'[n] : components'[n][d] = components'[n][e]
  <2> DEFINE c == components[n]
  <2>1. /\ c = [d \in DOMAIN c |-> c[d]] /\ \A d \in DOMAIN c : c[d] \in PolicyRefs
        /\ DOMAIN c \in (SUBSET Directions) \ {{}}
        /\ \A d \in DOMAIN c, g \in Fields : c[d][g] \in policies[g] \union {None}
        /\ \A d, e \in DOMAIN c : c[d] = c[e]
    BY <1>4 DEF TypeOK, ComponentTarget, TargetsSound, RefsExist, LegsAgree, Exists
  <2>2. components'[n] = [d \in DOMAIN c |-> remapRef(c[d], f, from, to)]
    BY <1>4 DEF remapPolicyRefs, remapComponent
  <2>3. ASSUME NEW d \in DOMAIN c
        PROVE  /\ remapRef(c[d], f, from, to) \in PolicyRefs
               /\ \A g \in Fields : remapRef(c[d], f, from, to)[g] \in policies'[g] \union {None}
    BY <2>1, <2>3, RemapRefLemma, RemapExists
  <2>. HIDE DEF c
  <2>4. ComponentTarget(components'[n])
    BY <2>1, <2>2, <2>3 DEF ComponentTarget
  <2>5. \A d \in DOMAIN components'[n] : Exists(components[n][d])'
    BY <2>2, <2>3 DEF Exists
  <2>6. \A d, e \in DOMAIN components'[n] : components'[n][d] = components'[n][e]
    BY <2>1, <2>2
  <2>. QED  BY <2>4, <2>5, <2>6
<1>5. /\ \A n \in DOMAIN apps' : AppTarget(apps'[n])
      /\ \A n \in DOMAIN actors' : ActorTarget(actors'[n])
      /\ \A n \in DOMAIN components' : ComponentTarget(components'[n])
  BY <1>1, <1>2, <1>3, <1>4
<1>6. RefsExist'
  BY <1>1, <1>2, <1>3, <1>4 DEF RefsExist
<1>7. LegsAgree' /\ ScopeNeedsBreaker'
  BY <1>1, <1>3, <1>4 DEF LegsAgree, ScopeNeedsBreaker
<1>. QED  BY <1>1, <1>5, <1>6, <1>7 DEF TargetsSound

\* A policy more breaks no reference.
LEMMA GrowLemma ==
    ASSUME TypeOK, TargetsSound, UNCHANGED targets,
           activeStep' \in 0..3, named' \in BOOLEAN, policies' \in [Fields -> SUBSET Names],
           \A g \in Fields : policies[g] \subseteq policies'[g]
    PROVE  TypeOK' /\ TargetsSound'
<1>1. TypeOK'
  BY DEF TypeOK, targets
<1>2. RefsExist'
  BY DEF TargetsSound, RefsExist, Exists, targets
<1>3. LegsAgree' /\ ScopeNeedsBreaker'
  BY DEF TargetsSound, LegsAgree, ScopeNeedsBreaker, targets
<1>. QED  BY <1>1, <1>2, <1>3 DEF TargetsSound

---------------------------------------------------------------------------
BuilderInv == TypeOK /\ TargetsSound

\* The wizard starts with no targets.
LEMMA BuilderInitInv == Init => BuilderInv
<1>. SUFFICES ASSUME Init
               PROVE  BuilderInv
  OBVIOUS
<1>1. activeStep \in 0..3 /\ policies \in [Fields -> SUBSET Names]
  BY DEF Init, initialState
<1>0. named \in BOOLEAN
  BY Zenon DEF Init, initialState
<1>2. /\ DOMAIN apps = {} /\ TargetMap(apps)
      /\ DOMAIN actors = {} /\ TargetMap(actors)
      /\ DOMAIN components = {} /\ TargetMap(components)
  BY DEF Init, initialState, TargetMap
<1>3. TypeOK
  BY <1>0, <1>1, <1>2, Zenon DEF TypeOK
<1>4. TargetsSound
  BY <1>2 DEF TargetsSound, RefsExist, LegsAgree, ScopeNeedsBreaker
<1>. QED  BY <1>3, <1>4 DEF BuilderInv

\* A policy that is saved is never taken away, unless it is renamed.
LEMMA UpsertInv ==
    ASSUME BuilderInv, NEW f \in Fields, NEW edit \in Names \union {None}, NEW n \in Names,
           upsertWithRename(f, edit, n)
    PROVE  BuilderInv'
<1>. USE DEF BuilderInv
<1>1. /\ activeStep' \in 0..3 /\ named' \in BOOLEAN
      /\ policies' \in [Fields -> SUBSET Names]
  BY DEF upsertWithRename, TypeOK
<1>2. CASE edit \notin {None, n}
  <2>1. /\ remapPolicyRefs(f, edit, n)
        /\ policies' = [policies EXCEPT ![f] = (@ \ {edit}) \union {n}]
    BY <1>2 DEF upsertWithRename
  <2>2. /\ \A g \in Fields :
             policies[g] \subseteq policies'[g] \union (IF g = f THEN {edit} ELSE {})
        /\ n \in policies'[f] \union {None}
    BY <2>1 DEF TypeOK
  <2>3. /\ TargetMap(apps') /\ \A m \in DOMAIN apps' : AppTarget(apps'[m])
        /\ TargetMap(actors') /\ \A m \in DOMAIN actors' : ActorTarget(actors'[m])
        /\ TargetMap(components') /\ \A m \in DOMAIN components' : ComponentTarget(components'[m])
        /\ TargetsSound'
    BY <2>1, <2>2, CascadeLemma
  <2>. QED  BY <1>1, <2>3 DEF TypeOK
<1>3. CASE edit \in {None, n}
  <2>1. /\ UNCHANGED targets
        /\ policies' = [policies EXCEPT ![f] = @ \union {n}]
    BY <1>3 DEF upsertWithRename
  <2>2. \A g \in Fields : policies[g] \subseteq policies'[g]
    BY <2>1 DEF TypeOK
  <2>. QED  BY <1>1, <2>1, <2>2, GrowLemma
<1>. QED  BY <1>2, <1>3

\* The override of a built-in retry breaks no reference either.
LEMMA SaveOverrideInv ==
    ASSUME BuilderInv, NEW n \in Reserved, SaveOverride(n)
    PROVE  BuilderInv'
<1>1. /\ UNCHANGED targets
      /\ activeStep' \in 0..3 /\ named' \in BOOLEAN /\ policies' \in [Fields -> SUBSET Names]
      /\ \A g \in Fields : policies[g] \subseteq policies'[g]
  BY ReservedAssumption DEF SaveOverride, BuilderInv, TypeOK
<1>. QED  BY <1>1, GrowLemma DEF BuilderInv

\* A policy that is removed is removed from every target.
LEMMA RemovePolicyInv ==
    ASSUME BuilderInv, NEW f \in Fields, NEW n \in Names, RemovePolicy(f, n)
    PROVE  BuilderInv'
<1>1. /\ activeStep' \in 0..3 /\ named' \in BOOLEAN
      /\ policies' \in [Fields -> SUBSET Names]
      /\ remapPolicyRefs(f, n, None)
  BY DEF RemovePolicy, BuilderInv, TypeOK
<1>2. \A g \in Fields :
         policies[g] \subseteq policies'[g] \union (IF g = f THEN {n} ELSE {})
  BY DEF RemovePolicy, BuilderInv, TypeOK
<1>3. /\ TargetMap(apps') /\ \A m \in DOMAIN apps' : AppTarget(apps'[m])
      /\ TargetMap(actors') /\ \A m \in DOMAIN actors' : ActorTarget(actors'[m])
      /\ TargetMap(components') /\ \A m \in DOMAIN components' : ComponentTarget(components'[m])
      /\ TargetsSound'
  BY <1>1, <1>2, CascadeLemma DEF BuilderInv
<1>. QED  BY <1>1, <1>3 DEF BuilderInv, TypeOK

\* The pickers give back names that are offered, or those the record came with.
LEMMA PickersLemma ==
    ASSUME TypeOK, NEW initial \in PolicyRefs, Exists(initial), NEW leg \in PolicyPickers(initial)
    PROVE  leg \in PolicyRefs /\ Exists(leg)
  BY DEF PolicyPickers, Options, Pick, PolicyRefs, Fields, Exists, TypeOK

\* A new record starts with no reference.
LEMMA NoRefsLemma == NoRefs \in PolicyRefs /\ Exists(NoRefs)
  BY DEF NoRefs, PolicyRefs, Exists

\* Saving a record leaves the others as they are.
LEMMA SavedLemma ==
    ASSUME NEW map, TargetMap(map), NEW edit, NEW n \in TargetNames, NEW t, NEW new,
           new = saved(map, edit, n, t)
    PROVE  /\ TargetMap(new)
           /\ n \in DOMAIN new /\ new[n] = t
           /\ \A m \in DOMAIN new : m # n => m \in DOMAIN map /\ new[m] = map[m]
  BY DEF saved, upserted, withoutKey, TargetMap

\* An app's references are the pickers', which are offered.
LEMMA SaveAppInv ==
    ASSUME BuilderInv, NEW edit \in TargetNames \union {None}, NEW n \in TargetNames, SaveApp(edit, n)
    PROVE  BuilderInv'
<1> DEFINE initial == IF edit = None THEN NoRefs ELSE apps[edit]
<1>1. TypeOK /\ TargetsSound
  BY DEF BuilderInv
<1>2. initial \in PolicyRefs /\ Exists(initial)
  BY <1>1, NoRefsLemma DEF SaveApp, CanSave, TypeOK, AppTarget, TargetsSound, RefsExist
<1>3. PICK leg \in PolicyPickers(initial) : apps' = saved(apps, edit, n, leg)
  BY DEF SaveApp
<1>4. leg \in PolicyRefs /\ Exists(leg)
  BY <1>1, <1>2, PickersLemma
<1>5. UNCHANGED <<activeStep, named, policies, actors, components>>
  BY DEF SaveApp
<1>6. /\ TargetMap(apps')
      /\ n \in DOMAIN apps' /\ apps'[n] = leg
      /\ \A m \in DOMAIN apps' : m # n => m \in DOMAIN apps /\ apps'[m] = apps[m]
  BY <1>1, <1>3, SavedLemma DEF TypeOK
<1>7. \A m \in DOMAIN apps' : AppTarget(apps'[m])
  BY <1>1, <1>4, <1>6 DEF TypeOK, AppTarget
<1>8. TypeOK'
  BY <1>1, <1>5, <1>6, <1>7, Zenon DEF TypeOK
<1>9. RefsExist'
  BY <1>1, <1>4, <1>5, <1>6 DEF TargetsSound, RefsExist, Exists
<1>10. LegsAgree' /\ ScopeNeedsBreaker'
  BY <1>1, <1>5 DEF TargetsSound, LegsAgree, ScopeNeedsBreaker
<1>. QED  BY <1>8, <1>9, <1>10 DEF BuilderInv, TargetsSound

\* An actor is saved with circuit-breaker settings only beside a circuit breaker.
LEMMA SaveActorInv ==
    ASSUME BuilderInv, NEW edit \in TargetNames \union {None}, NEW n \in TargetNames,
           NEW scope \in BOOLEAN, SaveActor(edit, n, scope)
    PROVE  BuilderInv'
<1> DEFINE initial == IF edit = None THEN NoRefs ELSE actors[edit].refs
<1>1. TypeOK /\ TargetsSound
  BY DEF BuilderInv
<1>2. initial \in PolicyRefs /\ Exists(initial)
  BY <1>1, NoRefsLemma DEF SaveActor, CanSave, TypeOK, ActorTarget, TargetsSound, RefsExist
<1>3. PICK leg \in PolicyPickers(initial) :
         actors' = saved(actors, edit, n,
                         [refs |-> leg, scoped |-> scope /\ leg["circuitBreaker"] # None])
  BY DEF SaveActor
<1> DEFINE scopes == scope /\ leg["circuitBreaker"] # None
           t == [refs |-> leg, scoped |-> scopes]
<1>4. leg \in PolicyRefs /\ Exists(leg)
  BY <1>1, <1>2, PickersLemma
<1>5. UNCHANGED <<activeStep, named, policies, apps, components>>
  BY DEF SaveActor
<1>6. /\ TargetMap(actors')
      /\ n \in DOMAIN actors' /\ actors'[n] = t
      /\ \A m \in DOMAIN actors' : m # n => m \in DOMAIN actors /\ actors'[m] = actors[m]
  <2>1. actors' = saved(actors, edit, n, t)
    BY <1>3
  <2> HIDE DEF t
  <2>. QED  BY <1>1, <2>1, SavedLemma DEF TypeOK
<1>7. /\ ActorTarget(t) /\ t.refs = leg
      /\ t.scoped = scopes
  <2>1. scopes \in BOOLEAN
    OBVIOUS
  <2> HIDE DEF scopes
  <2>. QED  BY <1>4, <2>1 DEF ActorTarget
<1>8. \A m \in DOMAIN actors' : ActorTarget(actors'[m])
  BY <1>1, <1>6, <1>7, Zenon DEF TypeOK
<1>9. TypeOK'
  BY <1>1, <1>5, <1>6, <1>8, Zenon DEF TypeOK
<1>10. RefsExist'
  BY <1>1, <1>4, <1>5, <1>6, <1>7 DEF TargetsSound, RefsExist, Exists
<1>11. LegsAgree'
  BY <1>1, <1>5 DEF TargetsSound, LegsAgree
<1>12. ASSUME NEW m \in DOMAIN actors', actors'[m].scoped
       PROVE  actors'[m].refs["circuitBreaker"] # None
  <2>1. CASE m = n
    <3>1. scopes
      BY <1>6, <1>7, <1>12, <2>1, Zenon
    <3>. QED  BY <1>6, <1>7, <2>1, <3>1
  <2>2. CASE m # n
    BY <1>1, <1>6, <1>12, <2>2, Zenon DEF TargetsSound, ScopeNeedsBreaker
  <2>. QED  BY <2>1, <2>2
<1>13. ScopeNeedsBreaker'
  BY <1>12 DEF ScopeNeedsBreaker
<1>. QED  BY <1>9, <1>10, <1>11, <1>13 DEF BuilderInv, TargetsSound

\* Both legs of a component are written alike.
LEMMA SaveComponentInv ==
    ASSUME BuilderInv, NEW edit \in TargetNames \union {None}, NEW n \in TargetNames,
           NEW direction \in (SUBSET Directions) \ {{}}, SaveComponent(edit, n, direction)
    PROVE  BuilderInv'
<1> DEFINE initial == IF edit = None THEN NoRefs ELSE initialLeg(components[edit])
<1>1. TypeOK /\ TargetsSound
  BY DEF BuilderInv
<1>2. initial \in PolicyRefs /\ Exists(initial)
  <2>1. CASE edit = None
    BY <2>1, NoRefsLemma
  <2>2. CASE edit # None
    <3> DEFINE c == components[edit]
    <3>1. edit \in DOMAIN components
      BY <2>2 DEF SaveComponent, CanSave
    <3>2. /\ \A d \in DOMAIN c : c[d] \in PolicyRefs /\ Exists(c[d])
          /\ DOMAIN c \in (SUBSET Directions) \ {{}}
      BY <1>1, <3>1 DEF TypeOK, ComponentTarget, TargetsSound, RefsExist
    <3>3. \E d \in DOMAIN c : initialLeg(c) = c[d]
      <4> HIDE DEF c
      <4>1. CASE "outbound" \in DOMAIN c
        BY <4>1 DEF initialLeg
      <4>2. CASE "outbound" \notin DOMAIN c
        <5>0. DOMAIN c # {}
          BY <3>2, Zenon
        <5>1. PICK d : d \in DOMAIN c
          BY <5>0
        <5>2. d = "inbound"
          BY <3>2, <4>2, <5>1, Zenon DEF Directions
        <5>. QED  BY <4>2, <5>1, <5>2 DEF initialLeg
      <4>. QED  BY <4>1, <4>2
    <3>. QED  BY <2>2, <3>2, <3>3
  <2>. QED  BY <2>1, <2>2
<1>3. PICK leg \in PolicyPickers(initial) :
         components' = saved(components, edit, n, [d \in direction |-> leg])
  BY DEF SaveComponent
<1> DEFINE t == [d \in direction |-> leg]
<1>4. leg \in PolicyRefs /\ Exists(leg)
  BY <1>1, <1>2, PickersLemma
<1>5. UNCHANGED <<activeStep, named, policies, apps, actors>>
  BY DEF SaveComponent
<1>6. /\ TargetMap(components')
      /\ n \in DOMAIN components' /\ components'[n] = t
      /\ \A m \in DOMAIN components' :
           m # n => m \in DOMAIN components /\ components'[m] = components[m]
  <2>1. components' = saved(components, edit, n, t)
    BY <1>3
  <2> HIDE DEF t
  <2>. QED  BY <1>1, <2>1, SavedLemma DEF TypeOK
<1>7. ComponentTarget(t) /\ DOMAIN t = direction /\ \A d \in direction : t[d] = leg
  BY <1>4 DEF ComponentTarget
<1>8. \A m \in DOMAIN components' : ComponentTarget(components'[m])
  <2> HIDE DEF t
  <2>. QED  BY <1>1, <1>6, <1>7, Zenon DEF TypeOK
<1>9. TypeOK'
  BY <1>1, <1>5, <1>6, <1>8, Zenon DEF TypeOK
<1>10. ASSUME NEW m \in DOMAIN components'
       PROVE  /\ \A d \in DOMAIN components'[m] : Exists(components[m][d])'
              /\ \A d, e \in DOMAIN components'[m] : components'[m][d] = components'[m][e]
  <2> HIDE DEF t
  <2>1. CASE m = n
    BY <1>4, <1>5, <1>6, <1>7, <2>1 DEF Exists
  <2>2. CASE m # n
    BY <1>1, <1>5, <1>6, <2>2 DEF TargetsSound, RefsExist, LegsAgree, Exists
  <2>. QED  BY <2>1, <2>2
<1>11. RefsExist'
  BY <1>1, <1>5, <1>10 DEF TargetsSound, RefsExist, Exists
<1>12. LegsAgree' /\ ScopeNeedsBreaker'
  BY <1>1, <1>5, <1>10 DEF TargetsSound, LegsAgree, ScopeNeedsBreaker
<1>. QED  BY <1>9, <1>11, <1>12 DEF BuilderInv, TargetsSound

\* Without a record, a map of records is one of the others.
LEMMA WithoutKeyLemma ==
    ASSUME NEW map, TargetMap(map), NEW n, NEW new, new = withoutKey(map, n)
    PROVE  /\ TargetMap(new) /\ DOMAIN new \subseteq DOMAIN map
           /\ \A m \in DOMAIN new : new[m] = map[m]
  BY DEF withoutKey, TargetMap

\* What remains once a target is removed was sound before.
LEMMA RemoveTargetInv ==
    ASSUME BuilderInv, NEW n \in TargetNames, RemoveTarget(n)
    PROVE  BuilderInv'
<1>1. TypeOK /\ TargetsSound /\ UNCHANGED <<activeStep, named, policies>>
  BY DEF BuilderInv, RemoveTarget
<1>2. /\ TargetMap(apps') /\ DOMAIN apps' \subseteq DOMAIN apps
      /\ \A m \in DOMAIN apps' : apps'[m] = apps[m]
  BY <1>1, WithoutKeyLemma DEF RemoveTarget, TypeOK
<1>3. /\ TargetMap(actors') /\ DOMAIN actors' \subseteq DOMAIN actors
      /\ \A m \in DOMAIN actors' : actors'[m] = actors[m]
  BY <1>1, WithoutKeyLemma DEF RemoveTarget, TypeOK
<1>4. /\ TargetMap(components') /\ DOMAIN components' \subseteq DOMAIN components
      /\ \A m \in DOMAIN components' : components'[m] = components[m]
  BY <1>1, WithoutKeyLemma DEF RemoveTarget, TypeOK
<1>5. TypeOK'
  BY <1>1, <1>2, <1>3, <1>4 DEF TypeOK
<1>6. RefsExist'
  BY <1>1, <1>2, <1>3, <1>4 DEF TargetsSound, RefsExist, Exists
<1>7. LegsAgree' /\ ScopeNeedsBreaker'
  BY <1>1, <1>3, <1>4 DEF TargetsSound, LegsAgree, ScopeNeedsBreaker
<1>. QED  BY <1>5, <1>6, <1>7 DEF BuilderInv, TargetsSound

\* Turning the pages, and naming the policy, touches no record.
LEMMA WizardInv == ASSUME BuilderInv, Wizard PROVE BuilderInv'
<1>1. /\ TypeOK /\ TargetsSound /\ UNCHANGED <<policies, targets>>
      /\ activeStep' \in 0..3
  BY DEF BuilderInv, TypeOK, Wizard, SetName, Continue, Back, targets
<1>2. named' \in BOOLEAN
  BY Zenon DEF BuilderInv, TypeOK, Wizard, SetName, Continue, Back
<1>3. policies' \in [Fields -> SUBSET Names] /\ \A g \in Fields : policies[g] \subseteq policies'[g]
  BY <1>1 DEF TypeOK
<1>. QED  BY <1>1, <1>2, <1>3, GrowLemma DEF BuilderInv

\* A stutter changes none of it.
LEMMA BuilderStutterInv == ASSUME BuilderInv, UNCHANGED vars PROVE BuilderInv'
  BY GrowLemma DEF BuilderInv, TypeOK, vars, targets

---------------------------------------------------------------------------
\* BuilderInv is inductive: one step per action of the wizard.
LEMMA BuilderNextInv == ASSUME BuilderInv, [Next]_vars PROVE BuilderInv'
<1>1. ASSUME NEW edit \in Names \union {None}, NEW n \in Names,
             TimeoutDialog(edit, n) \/ RetryDialog(edit, n) \/ CircuitBreakerDialog(edit, n)
      PROVE  BuilderInv'
  BY <1>1, UpsertInv DEF TimeoutDialog, RetryDialog, CircuitBreakerDialog, Fields
<1>2. ASSUME NEW n \in Reserved, SaveOverride(n)
      PROVE  BuilderInv'
  BY <1>2, SaveOverrideInv
<1>3. ASSUME NEW f \in Fields, NEW n \in Names, RemovePolicy(f, n)
      PROVE  BuilderInv'
  BY <1>3, RemovePolicyInv
<1>4. ASSUME NEW edit \in TargetNames \union {None}, NEW n \in TargetNames, SaveApp(edit, n)
      PROVE  BuilderInv'
  BY <1>4, SaveAppInv
<1>5. ASSUME NEW edit \in TargetNames \union {None}, NEW n \in TargetNames,
             NEW scope \in BOOLEAN, SaveActor(edit, n, scope)
      PROVE  BuilderInv'
  BY <1>5, SaveActorInv
<1>6. ASSUME NEW edit \in TargetNames \union {None}, NEW n \in TargetNames,
             NEW direction \in (SUBSET Directions) \ {{}}, SaveComponent(edit, n, direction)
      PROVE  BuilderInv'
  BY <1>6, SaveComponentInv
<1>7. ASSUME NEW n \in TargetNames, RemoveTarget(n)
      PROVE  BuilderInv'
  BY <1>7, RemoveTargetInv
<1>8. CASE Edit
  BY <1>1, <1>2, <1>3, <1>4, <1>5, <1>6, <1>7, <1>8 DEF Edit
<1>. QED  BY <1>8, WizardInv, BuilderStutterInv DEF Next

\* Hence BuilderInv always holds.
LEMMA BuilderInvHolds == Spec => []BuilderInv
  BY BuilderInitInv, BuilderNextInv, PTL DEF Spec

\* The state of the builder is always of its type (reducer.ts).
THEOREM TypeCorrect == Spec => []TypeOK
<1>1. BuilderInv => TypeOK
  BY DEF BuilderInv
<1>. QED  BY <1>1, BuilderInvHolds, PTL

\* Whatever is renamed and removed, and in whatever order, every target refers to policies
\* that exist, the legs of a component agree and no circuit-breaker setting outlives its
\* circuit breaker (reducer.ts, targetDialogs.tsx).
THEOREM TargetsStaySound == Spec => []TargetsSound
<1>1. BuilderInv => TargetsSound
  BY DEF BuilderInv
<1>. QED  BY <1>1, BuilderInvHolds, PTL

-----------------------------------------------------------------------------
(* The overlay of stopped runs: its invariant                               *)

Instance == [pid : [Targets -> Nat], app : Statuses, daprd : Statuses, orphaned : BOOLEAN]
Procs == UNION {[T -> Nat] : T \in SUBSET Targets}
Entry == [instance : Instance, procs : Procs]

\* The processes of a run carry the number of its last start.
Processes ==
    /\ world \in [Keys -> [Targets -> Nat]]
    /\ starts \in [Keys -> Nat]
    /\ \A k \in Runs, t \in Targets : world[k][t] \in {0, starts[k]}

RunEntries ==
    /\ DOMAIN entries \subseteq Runs
    /\ \A k \in DOMAIN entries : entries[k] \in Entry

\* A scan that nothing overtook saw what runs, under the pids of its last start.
Scanned(s, k) ==
    /\ k \in Found => k \in DOMAIN s.views \union s.older
    /\ k \in Runs \cap DOMAIN s.views /\ k \notin s.older =>
          \A t \in Targets : s.views[k].pid[t] \in {0, starts[k]}

ScanShape(s) ==
    /\ DOMAIN s.views \subseteq Keys
    /\ \A k \in DOMAIN s.views : s.views[k] \in Instance
    /\ s = [views |-> s.views, by |-> s.by, live |-> s.live, older |-> s.older]

Scans == \A s \in scans : ScanShape(s) /\ \A k \in Keys : Scanned(s, k)

\* A remembered run has a snapshot of its last start.
Snapped(k) == k \in DOMAIN entries /\ \E t \in DOMAIN entries[k].procs : entries[k].procs[t] = starts[k]
Memory == \A k \in remembered : k \in Keys /\ (k \in late \/ Snapped(k))

\* What may be listed since it was last dismissed is listed, or the list is older.
StillListed ==
    /\ seen \cap suppressed = {}
    /\ \A k \in seen : k \in Found \union DOMAIN entries => k \in DOMAIN list.rows \union list.older

\* A hidden instance is down and forgotten, and suppressed unless an older scan spoke for
\* it; a scan that nothing overtook saw it fully stopped.
Gone(k) ==
    /\ Down(k) /\ k \notin DOMAIN entries
    /\ k \in suppressed \union late
    /\ k \in DOMAIN list.rows => k \in list.older \union late
    /\ \A s \in scans : k \in DOMAIN s.views \ s.older => fullyStopped(s.views[k])
Hidden == \A k \in hidden \cap Keys : Gone(k)

ListShape == list = [rows |-> list.rows, older |-> list.older] /\ DOMAIN list.rows \subseteq Keys

AppsInv == Processes /\ RunEntries /\ Scans /\ Memory /\ StillListed /\ Hidden /\ ListShape

-----------------------------------------------------------------------------
(* The operators of discovery and of the overlay *)

LEMMA Nobody == DOMAIN <<>> = {}
  OBVIOUS

\* A scan sees of a run the pids it has, or nothing.
LEMMA EnrichShape ==
    ASSUME Processes, NEW k \in Keys, NEW meta \in BOOLEAN
    PROVE  /\ enrich(k, meta) \in Instance
           /\ k \in Runs => \A t \in Targets : enrich(k, meta).pid[t] \in {0, starts[k]}
  <1>1. world[k] \in [Targets -> Nat] /\ "app" \in Targets /\ "daprd" \in Targets
    BY DEF Processes, Targets, Halves
  <1>2. Status(world[k]["app"]) \in Statuses /\ Status(world[k]["daprd"]) \in Statuses
    BY DEF Status, Statuses
  <1>3. [t \in Targets |-> IF k \in Composes \/ (t = "app" /\ ~meta) THEN 0 ELSE world[k][t]]
            \in [Targets -> Nat]
    BY <1>1
  <1>4. (IF k \in Runs /\ ~meta THEN "unknown" ELSE Status(world[k]["app"])) \in Statuses
    BY <1>2 DEF Statuses
  <1>5. (k \in Runs /\ meta /\ world[k]["all"] = 0 /\ world[k]["app"] = 0) \in BOOLEAN
    OBVIOUS
  <1>6. enrich(k, meta) \in Instance
    BY <1>2, <1>3, <1>4, <1>5 DEF enrich, Instance
  <1>7. k \in Runs => \A t \in Targets : enrich(k, meta).pid[t] \in {0, starts[k]}
    BY DEF enrich, Processes
  <1> QED
    BY <1>6, <1>7

\* A compose pair that is down is fully stopped in a scan.
LEMMA EnrichDown ==
    ASSUME NEW k \in Composes, Down(k), NEW meta \in BOOLEAN
    PROVE  fullyStopped(enrich(k, meta))
  <1>1. k \notin Runs
    BY AppsAssumption
  <1>2. world[k]["app"] = 0 /\ world[k]["daprd"] = 0
    BY DEF Down, Targets, Halves
  <1> QED
    BY <1>1, <1>2 DEF fullyStopped, enrich, Status

\* The overlay takes a process away from a v, it adds none.
LEMMA OverlayShape ==
    ASSUME NEW k, NEW v \in Instance
    PROVE  /\ applyEntry(k, v) \in Instance
           /\ \A t \in Targets : applyEntry(k, v).pid[t] \in {0, v.pid[t]}
           /\ k \notin DOMAIN entries => applyEntry(k, v) = v
  <1>1. CASE "app" \in retained(k, v)
    <2>1. k \in DOMAIN entries
      BY <1>1, Nobody DEF retained, snapshots
    <2>2. v.pid \in [Targets -> Nat]
      BY DEF Instance
    <2>3. [v.pid EXCEPT !["app"] = 0] \in [Targets -> Nat]
      BY <2>2
    <2>4. applyEntry(k, v) = [pid |-> [v.pid EXCEPT !["app"] = 0], app |-> "stopped",
                                 daprd |-> v.daprd, orphaned |-> v.orphaned]
      BY <1>1 DEF applyEntry, Instance
    <2>5. applyEntry(k, v) \in Instance
      BY <2>3, <2>4 DEF Instance, Statuses
    <2>6. \A t \in Targets : applyEntry(k, v).pid[t] \in {0, v.pid[t]}
      BY <2>2, <2>4
    <2> QED
      BY <2>1, <2>5, <2>6
  <1>2. CASE "app" \notin retained(k, v)
    BY <1>2 DEF applyEntry
  <1> QED
    BY <1>1, <1>2

\* A stopped run that is not scanned is shown with its app's pid only while that runs.
LEMMA SynthesizeShape ==
    ASSUME Processes, RunEntries, NEW k \in DOMAIN entries
    PROVE  /\ synthesize(k) \in Instance
           /\ \A t \in Targets : synthesize(k).pid[t] \in {0, starts[k]}
  <1> DEFINE in == entries[k].instance
             stopped == \/ "app" \in DOMAIN snapshots(k) \/ in.pid["app"] = 0
                        \/ in.pid["app"] # world[k]["app"]
             pids == [t \in Targets |-> IF t = "app" /\ ~stopped THEN in.pid[t] ELSE 0]
             app == IF stopped THEN "stopped" ELSE in.app
  <1>1. in \in Instance /\ k \in Runs /\ k \in Keys
    BY DEF RunEntries, Entry, Keys
  <1>2. in.pid \in [Targets -> Nat] /\ in.app \in Statuses /\ in.orphaned \in BOOLEAN
    BY <1>1 DEF Instance
  <1>3. pids \in [Targets -> Nat]
    BY <1>2
  <1>4. app \in Statuses
    BY <1>2 DEF Statuses
  <1>5. synthesize(k) = [pid |-> pids, app |-> app, daprd |-> "stopped", orphaned |-> in.orphaned]
    <2> HIDE DEF stopped
    <2>1. in = [pid |-> in.pid, app |-> in.app, daprd |-> in.daprd, orphaned |-> in.orphaned]
      BY <1>1 DEF Instance
    <2>2. synthesize(k) = [in EXCEPT !.daprd = "stopped",
                                     !.app = IF stopped THEN "stopped" ELSE @,
                                     !.pid = [t \in Targets |->
                                                 IF t = "app" /\ ~stopped THEN @[t] ELSE 0]]
      BY DEF synthesize, stopped
    <2> HIDE DEF in
    <2> QED
      BY <2>1, <2>2
  <1>6. synthesize(k) \in Instance
    <2> HIDE DEF pids, app
    <2> QED
      BY <1>2, <1>3, <1>4, <1>5 DEF Instance, Statuses
  <1>7. \A t \in Targets : pids[t] \in {0, world[k][t]}
    OBVIOUS
  <1>8. \A t \in Targets : world[k][t] \in {0, starts[k]}
    BY <1>1 DEF Processes
  <1>9. synthesize(k).pid = pids
    <2> HIDE DEF pids, app
    <2> QED
      BY <1>5
  <1> HIDE DEF pids
  <1> QED
    BY <1>6, <1>7, <1>8, <1>9

\* A reconciliation with views V drops snapshots, and an entry only with its last one.
LEMMA Reconciled ==
    ASSUME RunEntries, NEW V, \A k \in DOMAIN V : V[k] \in Instance
    PROVE  /\ DOMAIN reconciled(V) \subseteq DOMAIN entries
           /\ \A k \in DOMAIN reconciled(V) : reconciled(V)[k] \in Entry
           /\ \A k \in DOMAIN entries \ DOMAIN V :
                 k \in DOMAIN reconciled(V) /\ reconciled(V)[k] = entries[k]
           /\ \A k \in DOMAIN entries \cap DOMAIN V : \A t \in DOMAIN entries[k].procs :
                 V[k].pid[t] \in {0, entries[k].procs[t]} =>
                     /\ k \in DOMAIN reconciled(V)
                     /\ t \in DOMAIN reconciled(V)[k].procs
                     /\ reconciled(V)[k].procs[t] = entries[k].procs[t]
  <1> DEFINE D == {k \in DOMAIN entries : k \notin DOMAIN V \/ retained(k, V[k]) # {}}
             rest(k) == [t \in retained(k, V[k]) |-> entries[k].procs[t]]
             f(k) == IF k \in DOMAIN V THEN [entries[k] EXCEPT !.procs = rest(k)] ELSE entries[k]
  <1>1. reconciled(V) = [k \in D |-> f(k)]
    BY DEF reconciled
  <1>2. ASSUME NEW k \in DOMAIN entries
        PROVE  /\ entries[k] \in Entry
               /\ snapshots(k) = entries[k].procs
               /\ DOMAIN entries[k].procs \subseteq Targets
               /\ \A t \in DOMAIN entries[k].procs : entries[k].procs[t] \in Nat
    <2>1. entries[k] \in Entry
      BY DEF RunEntries
    <2>2. PICK T \in SUBSET Targets : entries[k].procs \in [T -> Nat]
      BY <2>1 DEF Entry, Procs
    <2> QED
      BY <2>1, <2>2 DEF snapshots
  <1>3. ASSUME NEW k \in DOMAIN entries, k \in DOMAIN V
        PROVE  f(k) \in Entry /\ f(k).procs = rest(k)
    <2>1. retained(k, V[k]) \subseteq DOMAIN entries[k].procs
      BY <1>2 DEF retained
    <2>2. rest(k) \in [retained(k, V[k]) -> Nat] /\ retained(k, V[k]) \in SUBSET Targets
      BY <1>2, <2>1
    <2>3. rest(k) \in Procs
      BY <2>2 DEF Procs
    <2>4. entries[k].instance \in Instance
      BY <1>2 DEF Entry
    <2>5. f(k) = [instance |-> entries[k].instance, procs |-> rest(k)]
      <3> HIDE DEF rest
      <3> QED
        BY <1>2, <1>3 DEF Entry
    <2> HIDE DEF f, rest
    <2> QED
      BY <2>3, <2>4, <2>5 DEF Entry
  <1>4. ASSUME NEW k \in DOMAIN entries \cap DOMAIN V, NEW t \in DOMAIN entries[k].procs,
               V[k].pid[t] \in {0, entries[k].procs[t]}
        PROVE  k \in D /\ t \in DOMAIN rest(k) /\ rest(k)[t] = entries[k].procs[t]
    <2>1. t \in retained(k, V[k])
      BY <1>2, <1>4 DEF retained, outdated
    <2> QED
      BY <2>1
  <1>5. \A k \in D : f(k) \in Entry
    <2> SUFFICES ASSUME NEW k \in D PROVE f(k) \in Entry
      OBVIOUS
    <2>1. CASE k \in DOMAIN V
      <3> HIDE DEF f
      <3> QED
        BY <2>1, <1>3
    <2>2. CASE k \notin DOMAIN V
      BY <2>2, <1>2
    <2> QED
      BY <2>1, <2>2
  <1>6. \A k \in DOMAIN entries \ DOMAIN V : k \in D /\ f(k) = entries[k]
    OBVIOUS
  <1>7. D \subseteq DOMAIN entries
    OBVIOUS
  <1> HIDE DEF D, f, rest
  <1>8. DOMAIN reconciled(V) = D /\ \A k \in D : reconciled(V)[k] = f(k)
    BY <1>1
  <1> QED
    BY <1>3, <1>4, <1>5, <1>6, <1>7, <1>8

-----------------------------------------------------------------------------
(* Scans *)

LEMMA FoundKeys == Found \subseteq Keys
  BY DEF Found, Keys

\* A new scan sees what there is.
LEMMA FreshScan ==
    ASSUME AppsInv, NEW by, NEW live, NEW mute
    PROVE  /\ ScanShape(Scan(by, live, mute))
           /\ \A k \in Keys : Scanned(Scan(by, live, mute), k)
           /\ \A k \in hidden \cap Keys : k \in DOMAIN Scan(by, live, mute).views =>
                 fullyStopped(Scan(by, live, mute).views[k])
  <1> DEFINE s == Scan(by, live, mute)
  <1>1. /\ s = [views |-> s.views, by |-> s.by, live |-> s.live, older |-> s.older]
        /\ DOMAIN s.views = Found
        /\ \A k \in Found : s.views[k] = enrich(k, k \notin mute)
    BY DEF Scan, scanned
  <1>2. \A k \in Found : k \in Keys /\ (k \notin mute) \in BOOLEAN
    BY FoundKeys
  <1>3. \A k \in Found : enrich(k, k \notin mute) \in Instance
    BY <1>2, EnrichShape DEF AppsInv
  <1>4. \A k \in Runs \cap Found, t \in Targets : enrich(k, k \notin mute).pid[t] \in {0, starts[k]}
    BY <1>2, EnrichShape DEF AppsInv
  <1>5. ASSUME NEW k \in hidden \cap Keys, k \in Found
        PROVE  fullyStopped(enrich(k, k \notin mute))
    <2>1. Down(k)
      BY <1>5 DEF AppsInv, Hidden, Gone
    <2>2. k \in Composes
      BY <1>5, <2>1 DEF Found, Down, Targets, Halves
    <2> QED
      BY <2>1, <2>2, EnrichDown
  <1> HIDE DEF s
  <1>6. ScanShape(s)
    BY <1>1, <1>3, FoundKeys DEF ScanShape
  <1>7. \A k \in Keys : Scanned(s, k)
    BY <1>1, <1>4 DEF Scanned
  <1>8. \A k \in hidden \cap Keys : k \in DOMAIN s.views => fullyStopped(s.views[k])
    BY <1>1, <1>5
  <1> QED
    BY <1>6, <1>7, <1>8 DEF s

\* Listings come, go and are given up.
LEMMA ScansComeAndGo ==
    ASSUME AppsInv,
           UNCHANGED <<world, starts, entries, suppressed, list, history>>,
           NEW Fresh, scans' \subseteq scans \union {[s EXCEPT !.live = FALSE] : s \in scans} \union Fresh,
           \A s \in Fresh : \E by, live, mute : s = Scan(by, live, mute)
    PROVE  AppsInv'
  <1> DEFINE Good(s) ==
                /\ ScanShape(s)
                /\ \A k \in Keys : Scanned(s, k)
                /\ \A k \in hidden \cap Keys : k \in DOMAIN s.views \ s.older => fullyStopped(s.views[k])
  <1>1. UNCHANGED <<remembered, hidden, seen, late>>
    BY DEF history
  <1>2. Found' = Found /\ \A k : Down(k)' = Down(k)
    BY DEF Found, Down
  <1>3. ASSUME NEW s \in scans'
        PROVE  Good(s)
    <2>1. CASE s \in scans
      BY <2>1 DEF AppsInv, Scans, Hidden, Gone
    <2>2. ASSUME NEW r \in scans, s = [r EXCEPT !.live = FALSE]
          PROVE  Good(s)
      <3>1. ScanShape(r) /\ \A k \in Keys : Scanned(r, k)
        BY DEF AppsInv, Scans
      <3>2. /\ s.views = r.views /\ s.older = r.older
            /\ s = [views |-> s.views, by |-> s.by, live |-> s.live, older |-> s.older]
        BY <2>2, <3>1 DEF ScanShape
      <3>3. \A k \in hidden \cap Keys : k \in DOMAIN r.views \ r.older => fullyStopped(r.views[k])
        BY DEF AppsInv, Hidden, Gone
      <3> QED
        BY <3>1, <3>2, <3>3 DEF ScanShape, Scanned
    <2>3. CASE s \in Fresh
      BY <2>3, FreshScan
    <2> QED
      BY <1>3, <2>1, <2>2, <2>3
  <1>4. \A s \in scans', k \in Keys : Scanned(s, k)'
    BY <1>2, <1>3 DEF Scanned
  <1>5. Scans'
    BY <1>3, <1>4 DEF Scans, ScanShape
  <1>6. Processes' /\ RunEntries' /\ Memory' /\ ListShape'
    BY <1>1 DEF AppsInv, Processes, RunEntries, Memory, Snapped, ListShape
  <1>7. StillListed'
    BY <1>1, <1>2 DEF AppsInv, StillListed
  <1>8. Hidden'
    <2> SUFFICES ASSUME NEW k \in hidden \cap Keys
                 PROVE  Gone(k)'
      BY <1>1 DEF Hidden
    <2>1. Gone(k)
      BY DEF AppsInv, Hidden
    <2>2. \A s \in scans' : k \in DOMAIN s.views \ s.older => fullyStopped(s.views[k])
      BY <1>3
    <2> QED
      BY <1>1, <1>2, <2>1, <2>2 DEF Gone, fullyStopped
  <1> QED
    BY <1>5, <1>6, <1>7, <1>8 DEF AppsInv

\* Nothing of the server's changes.
LEMMA NothingChanges ==
    ASSUME AppsInv,
           UNCHANGED <<world, starts, entries, suppressed, scans, list, history>>
    PROVE  AppsInv'
  <1> DEFINE Fresh == {}
  <1>1. /\ scans' \subseteq scans \union {[s EXCEPT !.live = FALSE] : s \in scans} \union Fresh
        /\ \A s \in Fresh : \E b, l, m : s = Scan(b, l, m)
    OBVIOUS
  <1> HIDE DEF Fresh
  <1> QED
    BY <1>1, ScansComeAndGo

-----------------------------------------------------------------------------
(* Processes *)

\* Processes end; containers may come up, of instances that are not hidden then.
LEMMA ProcessesChange ==
    ASSUME AppsInv, world' \in [Keys -> [Targets -> Nat]],
           \A k \in Runs, t \in Targets : world'[k][t] \in {0, world[k][t]},
           hidden' \subseteq hidden,
           \A k \in hidden' \cap Keys, t \in Targets : world'[k][t] = 0,
           UNCHANGED <<starts, entries, suppressed, scans, list, remembered, seen, late>>
    PROVE  AppsInv'
  <1>1. Found' \subseteq Found
    BY DEF Found, Targets, Halves
  <1>2. Processes'
    BY DEF AppsInv, Processes, Keys
  <1>3. RunEntries' /\ Memory' /\ ListShape'
    BY DEF AppsInv, RunEntries, Memory, Snapped, ListShape
  <1>4. Scans'
    <2>1. ASSUME NEW s \in scans, NEW k \in Keys
          PROVE  Scanned(s, k)'
      BY <1>1 DEF AppsInv, Scans, Scanned
    <2> QED
      BY <2>1 DEF AppsInv, Scans, ScanShape
  <1>5. StillListed'
    BY <1>1 DEF AppsInv, StillListed
  <1>6. Hidden'
    <2> SUFFICES ASSUME NEW k \in hidden' \cap Keys
                 PROVE  Gone(k)'
      BY DEF Hidden
    <2>1. Gone(k)
      BY DEF AppsInv, Hidden
    <2>2. Down(k)'
      BY DEF Down
    <2> QED
      BY <2>1, <2>2 DEF Gone, fullyStopped
  <1> QED
    BY <1>2, <1>3, <1>4, <1>5, <1>6 DEF AppsInv

\* The world moves by itself, or a request signals a process or a container.
LEMMA Performed ==
    ASSUME AppsInv, NEW o \in ops, Perform(o)
    PROVE  AppsInv'
  <1> DEFINE k == o.key  t == Head(o.todo)
  <1>0. world \in [Keys -> [Targets -> Nat]]
    BY DEF AppsInv, Processes
  <1>1. CASE terminateWithEscalation(o)
    <2>1. /\ k \in Runs /\ k \in Keys
          /\ UNCHANGED <<starts, entries, suppressed, scans, list, remembered, hidden, seen, late>>
          /\ \/ world' = [world EXCEPT ![k][t] = 0]
             \/ world' = [world EXCEPT ![k] = nobody]
             \/ world' = world
      BY <1>1 DEF terminateWithEscalation, history, Keys
    <2>2. /\ world' \in [Keys -> [Targets -> Nat]]
          /\ \A x \in Keys, y \in Targets : world'[x][y] \in {0, world[x][y]}
      <3> HIDE DEF k, t
      <3> QED
        BY <1>0, <2>1 DEF nobody
    <2>3. \A x \in hidden \cap Keys, y \in Targets : world[x][y] = 0
      BY DEF AppsInv, Hidden, Gone, Down
    <2> QED
      BY <2>1, <2>2, <2>3, ProcessesChange DEF Keys
  <1>2. CASE doCompose(o)
    <2>1. /\ k \in Composes /\ k \in Keys /\ k \notin Runs
          /\ UNCHANGED <<starts, entries, suppressed, scans, list, remembered, seen, late>>
          /\ \/ world' = [world EXCEPT ![k][t] = 0] /\ hidden' = hidden
             \/ world' = [world EXCEPT ![k][t] = 1] /\ hidden' = hidden \ {k}
             \/ world' = world /\ hidden' = hidden
      BY <1>2, AppsAssumption DEF doCompose, Keys
    <2>2. /\ world' \in [Keys -> [Targets -> Nat]]
          /\ \A x \in Keys \ {k}, y \in Targets : world'[x][y] = world[x][y]
          /\ k \in hidden' => \A y \in Targets : world'[k][y] \in {0, world[k][y]}
          /\ hidden' \subseteq hidden
      <3> HIDE DEF k, t
      <3> QED
        BY <1>0, <2>1
    <2>3. \A x \in hidden \cap Keys, y \in Targets : world[x][y] = 0
      BY DEF AppsInv, Hidden, Gone, Down
    <2> HIDE DEF k, t
    <2>4. \A x \in Runs, y \in Targets : world'[x][y] \in {0, world[x][y]}
      BY <2>1, <2>2 DEF Keys
    <2>5. \A x \in hidden' \cap Keys, y \in Targets : world'[x][y] = 0
      BY <2>2, <2>3
    <2> QED
      BY <2>1, <2>2, <2>4, <2>5, ProcessesChange
  <1> QED
    BY <1>1, <1>2 DEF Perform

\* A run starts under fresh pids: listings under way, and the list shown, are older.
LEMMA RunStarted ==
    ASSUME AppsInv, NEW k \in Runs, StartRun(k)
    PROVE  AppsInv'
  <1>1. /\ Down(k) /\ k \in Keys /\ k \notin Composes
        /\ starts' = [starts EXCEPT ![k] = @ + 1]
        /\ world' = [world EXCEPT ![k] = [t \in Targets |-> starts[k] + 1]]
        /\ remembered' = remembered \ {k} /\ hidden' = hidden \ {k}
        /\ scans' = overtaken(scans, {k}) /\ list' = [list EXCEPT !.older = @ \union {k}]
        /\ UNCHANGED <<entries, suppressed, seen, late>>
    BY AppsAssumption DEF StartRun, overtake, Keys
  <1>2. world \in [Keys -> [Targets -> Nat]] /\ starts \in [Keys -> Nat]
    BY DEF AppsInv, Processes
  <1>3. \A x \in Keys \ {k} : world'[x] = world[x] /\ starts'[x] = starts[x]
    BY <1>1, <1>2
  <1>4. starts'[k] = starts[k] + 1 /\ \A t \in Targets : world'[k][t] = starts'[k]
    BY <1>1, <1>2
  <1>5. Processes'
    <2>1. world' \in [Keys -> [Targets -> Nat]] /\ starts' \in [Keys -> Nat]
      BY <1>1, <1>2
    <2> QED
      BY <1>3, <1>4, <2>1 DEF AppsInv, Processes, Keys
  <1>6. Found' \subseteq Found \union {k}
    BY <1>3 DEF Found, Keys
  <1>7. ListShape' /\ list'.rows = list.rows /\ list'.older = list.older \union {k}
    BY <1>1 DEF AppsInv, ListShape
  <1>8. ASSUME NEW s \in scans'
        PROVE  /\ ScanShape(s) /\ k \in s.older
               /\ \E r \in scans : s.views = r.views /\ r.older \subseteq s.older
                     /\ s.older \subseteq r.older \union {k}
    <2>1. PICK r \in scans : s = [r EXCEPT !.older = @ \union {k}]
      BY <1>1 DEF overtaken
    <2>2. ScanShape(r)
      BY DEF AppsInv, Scans
    <2>3. /\ s.views = r.views /\ s.older = r.older \union {k}
          /\ s = [views |-> s.views, by |-> s.by, live |-> s.live, older |-> s.older]
      BY <2>1, <2>2 DEF ScanShape
    <2> QED
      BY <2>2, <2>3 DEF ScanShape
  <1>9. Scans'
    <2>1. ASSUME NEW s \in scans', NEW x \in Keys
          PROVE  Scanned(s, x)'
      <3>1. PICK r \in scans : s.views = r.views /\ r.older \subseteq s.older
        BY <1>8
      <3>2. Scanned(r, x)
        BY DEF AppsInv, Scans
      <3> QED
        BY <1>3, <1>6, <1>8, <3>1, <3>2 DEF Scanned
    <2> QED
      BY <1>8, <2>1 DEF Scans, ScanShape
  <1>10. RunEntries' /\ Memory'
    BY <1>1, <1>3 DEF AppsInv, RunEntries, Memory, Snapped
  <1>11. StillListed'
    BY <1>1, <1>6, <1>7 DEF AppsInv, StillListed
  <1>12. Hidden'
    <2> SUFFICES ASSUME NEW x \in hidden' \cap Keys
                 PROVE  Gone(x)'
      BY DEF Hidden
    <2>1. Gone(x) /\ x # k
      BY <1>1 DEF AppsInv, Hidden
    <2>2. \A s \in scans' : x \in DOMAIN s.views \ s.older => fullyStopped(s.views[x])
      BY <1>8, <2>1 DEF Gone
    <2>3. Down(x)'
      BY <1>3, <2>1 DEF Gone, Down
    <2> QED
      BY <1>1, <1>7, <2>1, <2>2, <2>3 DEF Gone, fullyStopped
  <1> QED
    BY <1>5, <1>7, <1>9, <1>10, <1>11, <1>12 DEF AppsInv

LEMMA WorldKeepsInv ==
    ASSUME AppsInv, World
    PROVE  AppsInv'
  <1>0. world \in [Keys -> [Targets -> Nat]]
    BY DEF AppsInv, Processes
  <1>h. \A x \in hidden \cap Keys, y \in Targets : world[x][y] = 0
    BY DEF AppsInv, Hidden, Gone, Down
  <1>1. ASSUME NEW k \in Keys, NEW t \in Targets, Die(k, t)
        PROVE  AppsInv'
    <2>1. /\ world' = [world EXCEPT ![k][t] = 0]
          /\ UNCHANGED <<starts, entries, suppressed, scans, list, remembered, hidden, seen, late>>
      BY <1>1 DEF Die, history
    <2>2. /\ world' \in [Keys -> [Targets -> Nat]]
          /\ \A x \in Keys, y \in Targets : world'[x][y] \in {0, world[x][y]}
      BY <1>0, <2>1
    <2> QED
      BY <1>h, <2>1, <2>2, ProcessesChange DEF Keys
  <1>2. ASSUME NEW k \in Runs, Reap(k)
        PROVE  AppsInv'
    <2>1. /\ world' = [world EXCEPT ![k] = [t \in Targets |-> 0]]
          /\ UNCHANGED <<starts, entries, suppressed, scans, list, remembered, hidden, seen, late>>
      BY <1>2 DEF Reap, history
    <2>2. /\ world' \in [Keys -> [Targets -> Nat]]
          /\ \A x \in Keys, y \in Targets : world'[x][y] \in {0, world[x][y]}
      BY <1>0, <2>1
    <2> QED
      BY <1>h, <2>1, <2>2, ProcessesChange DEF Keys
  <1>3. ASSUME NEW k \in Composes, NEW h \in Halves, StartContainer(k, h)
        PROVE  AppsInv'
    <2>1. /\ world' = [world EXCEPT ![k][h] = 1] /\ hidden' = hidden \ {k}
          /\ UNCHANGED <<starts, entries, suppressed, scans, list, remembered, seen, late>>
          /\ k \in Keys /\ k \notin Runs /\ h \in Targets
      BY <1>3, AppsAssumption DEF StartContainer, Keys, Targets
    <2>2. /\ world' \in [Keys -> [Targets -> Nat]]
          /\ \A x \in Keys \ {k}, y \in Targets : world'[x][y] = world[x][y]
      BY <1>0, <2>1
    <2>3. \A x \in Runs, y \in Targets : world'[x][y] \in {0, world[x][y]}
      BY <2>1, <2>2 DEF Keys
    <2>4. \A x \in hidden' \cap Keys, y \in Targets : world'[x][y] = 0
      BY <1>h, <2>1, <2>2
    <2> QED
      BY <2>1, <2>2, <2>3, <2>4, ProcessesChange
  <1> QED
    BY <1>1, <1>2, <1>3, RunStarted DEF World, Keys, Targets

-----------------------------------------------------------------------------
(* Get, and the stop of a run *)

\* What a Get finds, and that it keeps the entry of every run that has not restarted.
LEMMA GetFinds ==
    ASSUME AppsInv, NEW k, NEW mute, Get(k, mute) # <<>>
    PROVE  /\ k \in Found \union DOMAIN entries /\ k \in Keys
           /\ Get(k, mute)[1] \in Instance
           /\ k \in Runs => \A t \in Targets : Get(k, mute)[1].pid[t] \in {0, starts[k]}
  <1>1. CASE k \in Found
    <2> DEFINE v == enrich(k, k \notin mute)
    <2>1. k \in Keys /\ (k \notin mute) \in BOOLEAN
      BY <1>1, FoundKeys
    <2>2. v \in Instance /\ (k \in Runs => \A t \in Targets : v.pid[t] \in {0, starts[k]})
      BY <2>1, EnrichShape DEF AppsInv
    <2>3. Get(k, mute) = <<applyEntry(k, v)>>
      BY <1>1 DEF Get
    <2> HIDE DEF v
    <2>4. applyEntry(k, v) \in Instance
          /\ \A t \in Targets : applyEntry(k, v).pid[t] \in {0, v.pid[t]}
      BY <2>2, OverlayShape
    <2> QED
      BY <1>1, <2>1, <2>2, <2>3, <2>4
  <1>2. CASE k \notin Found
    <2>1. k \in DOMAIN entries /\ Get(k, mute) = <<synthesize(k)>>
      BY <1>2 DEF Get
    <2>2. k \in Keys
      BY <2>1 DEF AppsInv, RunEntries, Keys
    <2>3. synthesize(k) \in Instance /\ \A t \in Targets : synthesize(k).pid[t] \in {0, starts[k]}
      BY <2>1, SynthesizeShape DEF AppsInv
    <2> QED
      BY <2>1, <2>2, <2>3
  <1> QED
    BY <1>1, <1>2

\* The entries E keep those of entries, with every snapshot of a last start.
Keeps(E) ==
    /\ DOMAIN E \subseteq DOMAIN entries
    /\ \A k \in DOMAIN E : E[k] \in Entry
    /\ \A k \in Keys : Snapped(k) =>
          k \in DOMAIN E /\ \E t \in DOMAIN E[k].procs : E[k].procs[t] = starts[k]

LEMMA GetKeeps ==
    ASSUME AppsInv, NEW k, NEW mute
    PROVE  Keeps(afterGet(k, mute))
  <1>1. CASE k \notin Found
    BY <1>1 DEF afterGet, Keeps, Snapped, AppsInv, RunEntries
  <1>2. CASE k \in Found
    <2> DEFINE V == [x \in {k} |-> enrich(x, x \notin mute)]
    <2>1. k \in Keys /\ (k \notin mute) \in BOOLEAN
      BY <1>2, FoundKeys
    <2>2. DOMAIN V = {k} /\ V[k] = enrich(k, k \notin mute)
      OBVIOUS
    <2>3. V[k] \in Instance /\ (k \in Runs => \A t \in Targets : V[k].pid[t] \in {0, starts[k]})
      <3>1. enrich(k, k \notin mute) \in Instance
            /\ (k \in Runs => \A t \in Targets : enrich(k, k \notin mute).pid[t] \in {0, starts[k]})
        BY <2>1, EnrichShape DEF AppsInv
      <3> QED
        BY <3>1, <2>2
    <2>4. afterGet(k, mute) = reconciled(V)
      BY <1>2 DEF afterGet
    <2>5. RunEntries
      BY DEF AppsInv
    <2> HIDE DEF V
    <2>6. \A x \in DOMAIN V : V[x] \in Instance
      BY <2>2, <2>3
    <2>7. /\ DOMAIN reconciled(V) \subseteq DOMAIN entries
          /\ \A x \in DOMAIN reconciled(V) : reconciled(V)[x] \in Entry
      BY <2>5, <2>6, Reconciled
    <2>8. ASSUME NEW x \in Keys, Snapped(x)
          PROVE  x \in DOMAIN reconciled(V)
                 /\ \E t \in DOMAIN reconciled(V)[x].procs : reconciled(V)[x].procs[t] = starts[x]
      <3>1. PICK t \in DOMAIN entries[x].procs : entries[x].procs[t] = starts[x]
        BY <2>8 DEF Snapped
      <3>2. x \in DOMAIN entries /\ x \in Runs /\ t \in Targets
        BY <2>5, <2>8, <3>1 DEF Snapped, RunEntries, Entry, Procs
      <3>3. CASE x = k
        <4>1. x \in DOMAIN entries \cap DOMAIN V
          BY <2>2, <3>2, <3>3
        <4>2. V[x].pid[t] \in {0, entries[x].procs[t]}
          BY <2>3, <3>1, <3>2, <3>3
        <4>3. /\ x \in DOMAIN reconciled(V) /\ t \in DOMAIN reconciled(V)[x].procs
              /\ reconciled(V)[x].procs[t] = entries[x].procs[t]
          BY <2>5, <2>6, <3>1, <4>1, <4>2, Reconciled
        <4> QED
          BY <3>1, <4>3
      <3>4. CASE x # k
        <4>1. x \in DOMAIN reconciled(V) /\ reconciled(V)[x] = entries[x]
          BY <2>2, <2>5, <2>6, <3>2, <3>4, Reconciled
        <4> QED
          BY <3>1, <4>1
      <3> QED
        BY <3>3, <3>4
    <2> QED
      BY <2>4, <2>7, <2>8 DEF Keeps
  <1> QED
    BY <1>1, <1>2

\* Entries that go with their last snapshot of an earlier start disturb nothing.
LEMMA EntriesKept ==
    ASSUME AppsInv, Keeps(entries'), UNCHANGED <<world, starts, suppressed, scans, list, history>>
    PROVE  AppsInv'
  <1>1. UNCHANGED <<remembered, hidden, seen, late>>
    BY DEF history
  <1>2. Found' = Found /\ \A k : Down(k)' = Down(k)
    BY DEF Found, Down
  <1>3. Processes' /\ ListShape'
    BY DEF AppsInv, Processes, ListShape
  <1>4. RunEntries'
    BY DEF AppsInv, RunEntries, Keeps
  <1>5. Scans'
    <2>1. ASSUME NEW s \in scans, NEW k \in Keys
          PROVE  Scanned(s, k)'
      BY <1>2 DEF AppsInv, Scans, Scanned
    <2> QED
      BY <2>1 DEF AppsInv, Scans, ScanShape
  <1>6. Memory'
    BY <1>1 DEF AppsInv, Memory, Keeps, Snapped
  <1>7. StillListed'
    BY <1>1, <1>2 DEF AppsInv, StillListed, Keeps
  <1>8. Hidden'
    <2> SUFFICES ASSUME NEW k \in hidden \cap Keys
                 PROVE  Gone(k)'
      BY <1>1 DEF Hidden
    <2>1. Gone(k)
      BY DEF AppsInv, Hidden
    <2> QED
      BY <1>1, <1>2, <2>1 DEF Gone, fullyStopped, Keeps
  <1> QED
    BY <1>3, <1>4, <1>5, <1>6, <1>7, <1>8 DEF AppsInv

\* Entries of their type, to which the stop of in is added, whose process t was found.
Recordable(E, in, t) ==
    /\ \A x \in DOMAIN E : E[x] \in Entry
    /\ in \in Instance /\ t \in Targets /\ in.pid[t] # 0

\* R is E with a stop of k whose snapshot of t has the given pid.
Records(R, E, k, t, pid) ==
    /\ DOMAIN R = DOMAIN E \union {k}
    /\ \A x \in DOMAIN E \ {k} : R[x] = E[x]
    /\ R[k] \in Entry
    /\ t \in DOMAIN R[k].procs
    /\ R[k].procs[t] = pid

\* A stop is recorded with the snapshot of at least one process it found.
LEMMA Recorded ==
    ASSUME NEW E, NEW k, NEW in, NEW t, Recordable(E, in, t)
    PROVE  Records(RecordStop(E, k, in), E, k, t, in.pid[t])
  <1> DEFINE old == IF k \in DOMAIN E THEN E[k].procs ELSE <<>>
             T == {x \in Targets : in.pid[x] # 0} \union DOMAIN old
             procs == [x \in T |-> IF in.pid[x] # 0 THEN in.pid[x] ELSE old[x]]
  <1>0. /\ \A x \in DOMAIN E : E[x] \in Entry
        /\ in \in Instance /\ t \in Targets /\ in.pid[t] # 0
    BY DEF Recordable
  <1>1. in.pid \in [Targets -> Nat]
    BY <1>0 DEF Instance
  <1>2. DOMAIN old \subseteq Targets /\ \A x \in DOMAIN old : old[x] \in Nat
    <2>1. CASE k \in DOMAIN E
      <3>1. E[k] \in Entry
        BY <1>0, <2>1
      <3>2. PICK S \in SUBSET Targets : E[k].procs \in [S -> Nat]
        BY <3>1 DEF Entry, Procs
      <3> QED
        BY <2>1, <3>2
    <2>2. CASE k \notin DOMAIN E
      BY <2>2, Nobody
    <2> QED
      BY <2>1, <2>2
  <1>3. RecordStop(E, k, in) = [x \in DOMAIN E \union {k} |->
            IF x = k THEN [instance |-> in, procs |-> procs] ELSE E[x]]
    BY DEF RecordStop
  <1> HIDE DEF old
  <1>4. T \in SUBSET Targets /\ procs \in [T -> Nat] /\ t \in T /\ procs[t] = in.pid[t]
    BY <1>0, <1>1, <1>2
  <1> HIDE DEF T, procs
  <1>5. procs \in Procs /\ DOMAIN procs = T
    BY <1>4 DEF Procs
  <1>6. [instance |-> in, procs |-> procs] \in Entry
    BY <1>0, <1>5 DEF Entry
  <1> QED
    BY <1>3, <1>4, <1>5, <1>6 DEF Records

LEMMA Signalled ==
    ASSUME NEW in \in Instance, NEW target, signalled(in, target) # <<>>
    PROVE  \E t \in Targets : in.pid[t] # 0
  <1>1. "app" \in Targets /\ "daprd" \in Targets /\ "all" \in Targets
    BY DEF Targets, Halves
  <1>2. CASE in.pid["app"] # 0
    BY <1>1, <1>2
  <1>3. CASE in.pid["all"] # 0
    BY <1>1, <1>3
  <1>4. CASE in.pid["daprd"] # 0
    BY <1>1, <1>4
  <1>5. CASE in.pid["app"] = 0 /\ in.pid["all"] = 0 /\ in.pid["daprd"] = 0
    <2>1. signalTo(in, "app") = <<>> /\ signalTo(in, "daprd") = <<>>
      BY <1>5 DEF signalTo
    <2>2. signalTo(in, "app") \o signalTo(in, "daprd") = <<>>
      BY <2>1
    <2> QED
      BY <1>5, <2>1, <2>2 DEF signalled
  <1> QED
    BY <1>2, <1>3, <1>4, <1>5

\* A stop is recorded of a run that is up or already remembered.
LEMMA StopRecorded ==
    ASSUME AppsInv, NEW E, Keeps(E), NEW k \in Runs \cap (Found \union DOMAIN entries),
           NEW in \in Instance, \A t \in Targets : in.pid[t] \in {0, starts[k]},
           NEW t \in Targets, in.pid[t] # 0,
           entries' = RecordStop(E, k, in),
           remembered' = remembered \union {k}, late' = late \ {k},
           UNCHANGED <<world, starts, suppressed, scans, list, hidden, seen>>
    PROVE  AppsInv'
  <1>1. k \in Keys
    BY DEF Keys
  <1>3. in.pid[t] = starts[k]
    OBVIOUS
  <1>4. \A x \in DOMAIN E : E[x] \in Entry
    BY DEF Keeps
  <1>5. /\ DOMAIN entries' = DOMAIN E \union {k}
        /\ \A x \in DOMAIN E \ {k} : entries'[x] = E[x]
        /\ entries'[k] \in Entry
        /\ t \in DOMAIN entries'[k].procs
        /\ entries'[k].procs[t] = starts[k]
    <2>1. Recordable(E, in, t)
      BY <1>4 DEF Recordable
    <2>2. Records(RecordStop(E, k, in), E, k, t, in.pid[t])
      BY <2>1, Recorded
    <2>3. Records(entries', E, k, t, starts[k])
      BY <1>3, <2>2
    <2> QED
      BY <2>3 DEF Records
  <1>6. Found' = Found /\ \A x : Down(x)' = Down(x)
    BY DEF Found, Down
  <1>7. DOMAIN entries' \subseteq DOMAIN entries \union {k}
    BY <1>5 DEF Keeps
  <1>8. RunEntries'
    BY <1>4, <1>5, <1>7 DEF AppsInv, RunEntries
  <1>9. Processes' /\ ListShape'
    BY DEF AppsInv, Processes, ListShape
  <1>10. Scans'
    <2>1. ASSUME NEW s \in scans, NEW x \in Keys
          PROVE  Scanned(s, x)'
      BY <1>6 DEF AppsInv, Scans, Scanned
    <2> QED
      BY <2>1 DEF AppsInv, Scans, ScanShape
  <1>11. Memory'
    <2> SUFFICES ASSUME NEW x \in remembered'
                 PROVE  x \in Keys /\ (x \in late' \/ Snapped(x)')
      BY DEF Memory
    <2>1. CASE x = k
      BY <1>1, <1>5, <2>1 DEF Snapped
    <2>2. CASE x # k
      <3>1. x \in remembered /\ x \in Keys /\ (x \in late \/ Snapped(x))
        BY <2>2 DEF AppsInv, Memory
      <3>2. Snapped(x) => x \in DOMAIN E /\ \E y \in DOMAIN E[x].procs : E[x].procs[y] = starts[x]
        BY <3>1 DEF Keeps
      <3>3. Snapped(x) => Snapped(x)'
        BY <1>5, <2>2, <3>2 DEF Snapped
      <3> QED
        BY <2>2, <3>1, <3>3
    <2> QED
      BY <2>1, <2>2
  <1>12. StillListed'
    BY <1>1, <1>6, <1>7 DEF AppsInv, StillListed
  <1>13. Hidden'
    <2> SUFFICES ASSUME NEW x \in hidden \cap Keys
                 PROVE  Gone(x)'
      BY DEF Hidden
    <2>1. Gone(x)
      BY DEF AppsInv, Hidden
    <2>2. x # k
      BY <1>1, <2>1, AppsAssumption DEF Gone, Down, Found, Targets, Halves
    <2> QED
      BY <1>6, <1>7, <2>1, <2>2 DEF Gone, fullyStopped
  <1> QED
    BY <1>8, <1>9, <1>10, <1>11, <1>12, <1>13 DEF AppsInv

LEMMA Resolved ==
    ASSUME AppsInv, NEW o, NEW mute, doResolve(o, mute)
    PROVE  AppsInv'
  <1> DEFINE k == o.key
             found == Get(k, mute)
             in == found[1]
             E == afterGet(k, mute)
  <1>0. UNCHANGED <<world, starts, suppressed, scans, list, hidden, seen>>
    BY DEF doResolve
  <1>1. \/ entries' = E /\ UNCHANGED <<remembered, late>>
        \/ /\ found # <<>> /\ k \in Runs /\ signalled(in, o.target) # <<>>
           /\ entries' = RecordStop(E, k, in)
           /\ remembered' = remembered \union {k} /\ late' = late \ {k}
    BY DEF doResolve
  <1>2. Keeps(E)
    BY GetKeeps
  <1>3. CASE entries' = E /\ UNCHANGED <<remembered, late>>
    BY <1>0, <1>2, <1>3, EntriesKept DEF history
  <1>4. CASE /\ found # <<>> /\ k \in Runs /\ signalled(in, o.target) # <<>>
             /\ entries' = RecordStop(E, k, in)
             /\ remembered' = remembered \union {k} /\ late' = late \ {k}
    <2>1. /\ k \in Found \union DOMAIN entries /\ k \in Keys /\ in \in Instance
          /\ \A t \in Targets : in.pid[t] \in {0, starts[k]}
      BY <1>4, GetFinds
    <2>2. PICK t \in Targets : in.pid[t] # 0
      BY <1>4, <2>1, Signalled
    <2> HIDE DEF k, found, in, E
    <2> QED
      BY <1>0, <1>2, <1>4, <2>1, <2>2, StopRecorded
  <1> QED
    BY <1>1, <1>3, <1>4

-----------------------------------------------------------------------------
(* Listings that pass the overlay, and removal *)

\* What the overlay leaves of entries, suppression and late keys once a scan has passed.
Passed(E, S, L) ==
    /\ DOMAIN E \subseteq DOMAIN entries
    /\ \A k \in DOMAIN E : E[k] \in Entry
    /\ \A k \in remembered :
          k \in L \/ (k \in DOMAIN E /\ \E t \in DOMAIN E[k].procs : E[k].procs[t] = starts[k])
    /\ S \subseteq suppressed /\ late \subseteq L
    /\ \A k \in hidden \cap Keys : k \in S \union L

LEMMA ListingDomain ==
    ASSUME NEW V
    PROVE  /\ DOMAIN Listing(V) = DOMAIN V \union DOMAIN entries
           /\ \A k \in DOMAIN V : Listing(V)[k] = applyEntry(k, V[k])
  BY DEF Listing

\* A scan on its way through the overlay.
LEMMA Overlaid ==
    ASSUME AppsInv, NEW s \in scans
    PROVE  /\ Passed(reconciled(s.views), Unsuppressed(s.views),
                     late \union (s.older \cap DOMAIN s.views))
           /\ Shown(s.views) \subseteq Keys
           /\ Shown(s.views) \cap Unsuppressed(s.views) = {}
           /\ \A k \in seen \union Shown(s.views) : k \in Found \union DOMAIN entries =>
                 k \in Shown(s.views) \union s.older
           /\ \A k \in hidden \cap Keys : k \in Shown(s.views) =>
                 k \in s.older \union late
  <1> DEFINE V == s.views
             E == reconciled(V)
             S == Unsuppressed(V)
             L == late \union (s.older \cap DOMAIN V)
  <1>1. RunEntries /\ ScanShape(s) /\ \A k \in Keys : Scanned(s, k)
    BY DEF AppsInv, Scans
  <1>2. \A k \in DOMAIN V : V[k] \in Instance
    BY <1>1 DEF ScanShape
  <1>3. DOMAIN V \subseteq Keys /\ DOMAIN entries \subseteq Runs
    BY <1>1 DEF ScanShape, RunEntries
  <1>4. DOMAIN Listing(V) = DOMAIN V \union DOMAIN entries
    BY ListingDomain
  <1>5. DOMAIN E \subseteq DOMAIN entries /\ \A k \in DOMAIN E : E[k] \in Entry
    BY <1>1, <1>2, Reconciled
  <1>6. ASSUME NEW k \in remembered, k \notin L
        PROVE  k \in DOMAIN E /\ \E t \in DOMAIN E[k].procs : E[k].procs[t] = starts[k]
    <2>1. k \in Keys /\ Snapped(k)
      BY <1>6 DEF AppsInv, Memory
    <2>2. PICK t \in DOMAIN entries[k].procs : entries[k].procs[t] = starts[k]
      BY <2>1 DEF Snapped
    <2>3. k \in DOMAIN entries /\ k \in Runs /\ t \in Targets
      BY <1>1, <2>1, <2>2 DEF Snapped, RunEntries, Entry, Procs
    <2>4. CASE k \in DOMAIN V
      <3>1. V[k].pid[t] \in {0, entries[k].procs[t]}
        BY <1>1, <1>6, <2>1, <2>2, <2>3, <2>4 DEF Scanned
      <3>2. k \in DOMAIN entries \cap DOMAIN V
        BY <2>3, <2>4
      <3> HIDE DEF E, V
      <3>3. /\ k \in DOMAIN reconciled(V) /\ t \in DOMAIN reconciled(V)[k].procs
            /\ reconciled(V)[k].procs[t] = entries[k].procs[t]
        BY <1>1, <1>2, <2>2, <3>1, <3>2, Reconciled
      <3> QED
        BY <2>2, <3>3 DEF E
    <2>5. CASE k \notin DOMAIN V
      <3> HIDE DEF E, V
      <3>1. k \in DOMAIN reconciled(V) /\ reconciled(V)[k] = entries[k]
        BY <1>1, <1>2, <2>3, <2>5, Reconciled
      <3> QED
        BY <2>2, <3>1 DEF E
    <2> QED
      BY <2>4, <2>5
  <1>7. S \subseteq suppressed /\ Shown(V) \cap S = {} /\ Shown(V) \subseteq Keys
    BY <1>3, <1>4 DEF Unsuppressed, Shown, Keys
  <1>8. ASSUME NEW k \in hidden \cap Keys, k \in DOMAIN Listing(V), k \notin s.older
        PROVE  fullyStopped(Listing(V)[k])
    <2>1. Gone(k)
      BY DEF AppsInv, Hidden
    <2>2. k \in DOMAIN V /\ k \notin DOMAIN entries /\ fullyStopped(V[k])
      BY <1>4, <1>8, <2>1 DEF Gone
    <2>3. Listing(V)[k] = V[k]
      BY <1>2, <2>2, ListingDomain, OverlayShape
    <2> QED
      BY <2>2, <2>3
  <1>9. ASSUME NEW k \in hidden \cap Keys
        PROVE  k \in S \union L
    <2>1. k \in suppressed \union late /\ k \notin DOMAIN entries
      BY DEF AppsInv, Hidden, Gone
    <2> QED
      BY <1>4, <1>8, <1>9, <2>1 DEF Unsuppressed
  <1>10. ASSUME NEW k \in hidden \cap Keys, k \in Shown(V)
         PROVE  k \in s.older \union late
    BY <1>8, <1>10 DEF Shown, AppsInv, Hidden, Gone
  <1>11. ASSUME NEW k \in seen, k \in Found \union DOMAIN entries
         PROVE  k \in Shown(V) \union s.older
    <2>1. k \in DOMAIN V \union s.older \union DOMAIN entries
      BY <1>1, <1>11, FoundKeys DEF Scanned
    <2>2. k \notin suppressed
      BY DEF AppsInv, StillListed
    <2> QED
      BY <1>4, <2>1, <2>2 DEF Shown
  <1>12. Passed(E, S, L)
    <2> HIDE DEF E, S
    <2> QED
      BY <1>5, <1>6, <1>7, <1>9 DEF Passed
  <1> QED
    BY <1>7, <1>10, <1>11, <1>12

\* A listing goes through the overlay, and the page receives it or not.
LEMMA ListPassed ==
    ASSUME AppsInv, NEW s \in scans, List(s), scans' = scans \ {s},
           UNCHANGED <<world, starts, remembered, hidden>>,
           \/ /\ list' = [rows |-> [k \in Shown(s.views) |-> fullyStopped(Listing(s.views)[k])],
                         older |-> s.older]
              /\ seen' \subseteq seen \union Shown(s.views)
           \/ list' = list /\ seen' = seen
    PROVE  AppsInv'
  <1> DEFINE E == reconciled(s.views)
             S == Unsuppressed(s.views)
             L == late \union (s.older \cap DOMAIN s.views)
             Rows == Shown(s.views)
  <1>1. /\ entries' = E /\ suppressed' = S /\ late' = L
        /\ scans' = scans \ {s} /\ UNCHANGED <<world, starts, remembered, hidden>>
        /\ seen' \subseteq seen \union Rows
        /\ \/ /\ list' = [rows |-> [k \in Rows |-> fullyStopped(Listing(s.views)[k])],
                          older |-> s.older]
           \/ list' = list /\ seen' = seen
    BY DEF List
  <1>2. Passed(E, S, L) /\ Rows \subseteq Keys /\ Rows \cap S = {}
        /\ (\A k \in seen \union Rows : k \in Found \union DOMAIN entries => k \in Rows \union s.older)
        /\ (\A k \in hidden \cap Keys : k \in Rows => k \in s.older \union late)
    BY Overlaid
  <1> HIDE DEF E, S, L
  <1>3. \/ list'.older = s.older /\ DOMAIN list'.rows = Rows /\ ListShape'
        \/ list' = list /\ seen' = seen /\ ListShape'
    BY <1>1, <1>2 DEF AppsInv, ListShape
  <1> HIDE DEF Rows
  <1>4. Found' = Found /\ \A k : Down(k)' = Down(k)
    BY <1>1 DEF Found, Down
  <1>5. Processes' /\ RunEntries'
    BY <1>1, <1>2 DEF AppsInv, Processes, RunEntries, Passed
  <1>6. Scans'
    <2>1. ASSUME NEW r \in scans, NEW k \in Keys
          PROVE  Scanned(r, k)'
      BY <1>1, <1>4 DEF AppsInv, Scans, Scanned
    <2> QED
      BY <1>1, <2>1 DEF AppsInv, Scans, ScanShape
  <1>7. Memory'
    BY <1>1, <1>2 DEF AppsInv, Memory, Passed, Snapped
  <1>8. StillListed'
    <2>1. seen' \cap suppressed' = {}
      BY <1>1, <1>2 DEF AppsInv, StillListed, Passed
    <2>2. \A k \in seen' : k \in Found' \union DOMAIN entries' => k \in Found \union DOMAIN entries
      BY <1>1, <1>2, <1>4 DEF Passed
    <2>3. \A k \in seen' : k \in Found' \union DOMAIN entries' => k \in DOMAIN list'.rows \union list'.older
      BY <1>1, <1>2, <1>3, <2>2 DEF AppsInv, StillListed
    <2> QED
      BY <2>1, <2>3 DEF StillListed
  <1>9. Hidden'
    <2> SUFFICES ASSUME NEW k \in hidden \cap Keys
                 PROVE  Gone(k)'
      BY <1>1 DEF Hidden
    <2>1. Gone(k)
      BY DEF AppsInv, Hidden
    <2>2. k \in DOMAIN list'.rows => k \in list'.older \union late'
      BY <1>1, <1>2, <1>3, <2>1 DEF Gone, Passed
    <2> QED
      BY <1>1, <1>2, <1>4, <2>1, <2>2 DEF Gone, fullyStopped, Passed
  <1> QED
    BY <1>3, <1>5, <1>6, <1>7, <1>8, <1>9 DEF AppsInv

\* The page receives the list s, or the answer is not the one it waits for.
LEMMA ListAnswered ==
    ASSUME AppsInv, NEW s \in scans, AnswerList(s)
    PROVE  AppsInv'
  <1>1. /\ List(s) /\ scans' = scans \ {s} /\ UNCHANGED <<world, starts, remembered, hidden>>
        /\ \/ /\ list' = [rows |-> [k \in Shown(s.views) |-> fullyStopped(Listing(s.views)[k])],
                          older |-> s.older]
              /\ seen' \subseteq seen \union Shown(s.views)
           \/ list' = list /\ seen' = seen
    BY DEF AnswerList
  <1> QED
    BY <1>1, ListPassed

\* The listing of a clearing is not the page's.
LEMMA Cleared ==
    ASSUME AppsInv, NEW s \in scans, NEW request, ClearInactive(s, request)
    PROVE  AppsInv'
  <1>1. /\ List(s) /\ scans' = scans \ {s} /\ UNCHANGED <<world, starts, remembered, hidden>>
        /\ list' = list /\ seen' = seen
    BY DEF ClearInactive
  <1> QED
    BY <1>1, ListPassed

\* Instances K are dismissed, after the overlay has left E, S and L, while the listings
\* R are under way.
LEMMA Removal ==
    ASSUME AppsInv, NEW K, NEW E, NEW S, NEW L, NEW R \in SUBSET scans, Passed(E, S, L),
           entries' = Drop(K, E), suppressed' = Suppress(K, S), dismissed(K),
           seen' = seen \ K, late' = L \ K, overtake(R, K), UNCHANGED <<world, starts>>
    PROVE  AppsInv'
  <1>1. /\ remembered' = remembered \ K
        /\ hidden' = hidden \union {k \in K : Down(k)}
        /\ suppressed' = S \union K
        /\ scans' = overtaken(R, K)
        /\ list' = [list EXCEPT !.older = @ \union K]
    BY DEF dismissed, Suppress, overtake
  <1>2. DOMAIN entries' = DOMAIN E \ K /\ \A k \in DOMAIN E \ K : entries'[k] = E[k]
    BY DEF Drop
  <1>3. Found' = Found /\ \A k : Down(k)' = Down(k)
    BY DEF Found, Down
  <1>4. ListShape' /\ list'.rows = list.rows /\ list'.older = list.older \union K
    BY <1>1 DEF AppsInv, ListShape
  <1>5. Processes'
    BY DEF AppsInv, Processes
  <1>6. RunEntries'
    BY <1>2 DEF AppsInv, RunEntries, Passed
  <1>7. ASSUME NEW s \in scans'
        PROVE  /\ ScanShape(s) /\ K \subseteq s.older
               /\ \E r \in scans : s.views = r.views /\ r.older \subseteq s.older
    <2>1. PICK r \in scans : s = [r EXCEPT !.older = @ \union K]
      BY <1>1 DEF overtaken
    <2>2. ScanShape(r)
      BY DEF AppsInv, Scans
    <2>3. /\ s.views = r.views /\ s.older = r.older \union K
          /\ s = [views |-> s.views, by |-> s.by, live |-> s.live, older |-> s.older]
      BY <2>1, <2>2 DEF ScanShape
    <2> QED
      BY <2>2, <2>3 DEF ScanShape
  <1>8. Scans'
    <2>1. ASSUME NEW s \in scans', NEW k \in Keys
          PROVE  Scanned(s, k)'
      <3>1. PICK r \in scans : s.views = r.views /\ r.older \subseteq s.older
        BY <1>7
      <3>2. Scanned(r, k)
        BY DEF AppsInv, Scans
      <3> QED
        BY <1>3, <3>1, <3>2 DEF Scanned
    <2> QED
      BY <1>7, <2>1 DEF Scans, ScanShape
  <1>9. Memory'
    <2> SUFFICES ASSUME NEW k \in remembered'
                 PROVE  k \in Keys /\ (k \in late' \/ Snapped(k)')
      BY DEF Memory
    <2>1. k \in remembered /\ k \notin K /\ k \in Keys
      BY <1>1 DEF AppsInv, Memory
    <2>2. k \in L \/ (k \in DOMAIN E /\ \E t \in DOMAIN E[k].procs : E[k].procs[t] = starts[k])
      BY <2>1 DEF Passed
    <2> QED
      BY <1>2, <2>1, <2>2 DEF Snapped
  <1>10. StillListed'
    BY <1>1, <1>2, <1>3, <1>4 DEF AppsInv, StillListed, Passed
  <1>11. Hidden'
    <2> SUFFICES ASSUME NEW k \in hidden' \cap Keys
                 PROVE  Gone(k)'
      BY DEF Hidden
    <2>1. Down(k)
      BY <1>1 DEF AppsInv, Hidden, Gone
    <2>2. k \notin DOMAIN entries'
      BY <1>1, <1>2 DEF AppsInv, Hidden, Gone, Passed
    <2>3. k \in suppressed' \union late'
      BY <1>1 DEF Passed
    <2>4. k \in DOMAIN list'.rows => k \in list'.older \union late'
      BY <1>1, <1>4 DEF AppsInv, Hidden, Gone, Passed
    <2>5. ASSUME NEW s \in scans', k \in DOMAIN s.views \ s.older
          PROVE  fullyStopped(s.views[k])
      <3>1. PICK r \in scans : s.views = r.views /\ r.older \subseteq s.older
        BY <1>7
      <3>2. k \in hidden
        BY <1>1, <1>7, <2>5
      <3> QED
        BY <2>5, <3>1, <3>2 DEF AppsInv, Hidden, Gone
    <2> QED
      BY <1>3, <2>1, <2>2, <2>3, <2>4, <2>5 DEF Gone, fullyStopped
  <1> QED
    BY <1>4, <1>5, <1>6, <1>8, <1>9, <1>10, <1>11 DEF AppsInv

LEMMA Dismissed ==
    ASSUME AppsInv, NEW k, dismiss(k)
    PROVE  AppsInv'
  <1>1. Passed(entries, suppressed, late)
    BY DEF Passed, AppsInv, RunEntries, Memory, Snapped, Hidden, Gone
  <1> DEFINE K == {k}
  <1>2. /\ entries' = Drop(K, entries) /\ suppressed' = Suppress(K, suppressed)
        /\ dismissed(K) /\ seen' = seen \ K /\ late' = late \ K /\ overtake(scans, K)
        /\ UNCHANGED <<world, starts>>
    BY DEF dismiss
  <1> HIDE DEF K
  <1> QED
    BY <1>1, <1>2, Removal

-----------------------------------------------------------------------------
(* The specification *)

LEMMA AppsInitInv ==
    ASSUME AppsInit
    PROVE  AppsInv
  <1>1. /\ world = [k \in Keys |-> IF k \in Runs THEN [t \in Targets |-> 1]
                                   ELSE [t \in Targets |-> IF t = "all" THEN 0 ELSE 1]]
        /\ starts = [k \in Keys |-> IF k \in Runs THEN 1 ELSE 0]
        /\ entries = <<>> /\ suppressed = {} /\ scans = {}
        /\ list = [rows |-> <<>>, older |-> Keys]
        /\ remembered = {} /\ hidden = {} /\ seen = Keys /\ late = {}
    BY DEF AppsInit, InitServer
  <1>2. Processes
    <2>1. /\ [t \in Targets |-> 1] \in [Targets -> Nat]
          /\ [t \in Targets |-> IF t = "all" THEN 0 ELSE 1] \in [Targets -> Nat]
      OBVIOUS
    <2>2. world \in [Keys -> [Targets -> Nat]]
      <3> DEFINE a == [t \in Targets |-> 1]
                 b == [t \in Targets |-> IF t = "all" THEN 0 ELSE 1]
      <3>1. a \in [Targets -> Nat] /\ b \in [Targets -> Nat]
        OBVIOUS
      <3>2. world = [k \in Keys |-> IF k \in Runs THEN a ELSE b]
        BY <1>1
      <3> HIDE DEF a, b
      <3> QED
        BY <3>1, <3>2
    <2>3. starts \in [Keys -> Nat]
      BY <1>1
    <2>4. \A k \in Runs, t \in Targets : world[k][t] = 1 /\ starts[k] = 1
      BY <1>1 DEF Keys
    <2> QED
      BY <2>2, <2>3, <2>4 DEF Processes
  <1>3. RunEntries
    BY <1>1, Nobody DEF RunEntries
  <1>4. Scans /\ Memory /\ Hidden
    BY <1>1 DEF Scans, Memory, Hidden
  <1>5. StillListed
    BY <1>1, FoundKeys, Nobody DEF StillListed
  <1>6. ListShape
    BY <1>1, Nobody DEF ListShape
  <1> QED
    BY <1>2, <1>3, <1>4, <1>5, <1>6 DEF AppsInv

\* The user's steps: only the confirmation of `clear' starts a listing.
LEMMA UserKeepsInv ==
    ASSUME AppsInv, User
    PROVE  AppsInv'
  <1>1. UNCHANGED <<world, starts, entries, suppressed, list, history>>
    BY DEF User
  <1>2. \/ UNCHANGED scans
        \/ \E by, live, mute : scans' = scans \union {Scan(by, live, mute)}
    <2>1. CASE Applications
      BY <2>1 DEF Applications, onOpen, confirmRemove, confirmClear
    <2>2. CASE AppDetail
      BY <2>2 DEF AppDetail, AppDetailContent, runAction, removeFromList, navigate
    <2>3. CASE onConfirm
      BY <2>3 DEF onConfirm
    <2>4. CASE onCancel
      BY <2>4 DEF onCancel
    <2> QED
      BY <2>1, <2>2, <2>3, <2>4 DEF User
  <1>3. CASE UNCHANGED scans
    BY <1>1, <1>3, NothingChanges
  <1>4. ASSUME NEW by, NEW live, NEW mute, scans' = scans \union {Scan(by, live, mute)}
        PROVE  AppsInv'
    <2> DEFINE Fresh == {Scan(by, live, mute)}
    <2>1. /\ scans' \subseteq scans \union {[s EXCEPT !.live = FALSE] : s \in scans} \union Fresh
          /\ \A s \in Fresh : \E b, l, m : s = Scan(b, l, m)
      BY <1>4
    <2> HIDE DEF Fresh
    <2> QED
      BY <1>1, <2>1, ScansComeAndGo
  <1> QED
    BY <1>2, <1>3, <1>4

\* Polls, their answers, and the listing that follows a request.
LEMMA NetworkKeepsInv ==
    ASSUME AppsInv, Network
    PROVE  AppsInv'
  <1>1. ASSUME useApps
        PROVE  AppsInv'
    <2>1. PICK mute : scans' = scans \union {Scan("page", TRUE, mute)}
      BY <1>1 DEF useApps
    <2> DEFINE Fresh == {Scan("page", TRUE, mute)}
    <2>2. /\ scans' \subseteq scans \union {[s EXCEPT !.live = FALSE] : s \in scans} \union Fresh
          /\ \A s \in Fresh : \E b, l, m : s = Scan(b, l, m)
          /\ UNCHANGED <<world, starts, entries, suppressed, list, history>>
      BY <1>1, <2>1 DEF useApps
    <2> HIDE DEF Fresh
    <2> QED
      BY <2>2, ScansComeAndGo
  <1>2. ASSUME NEW s \in scans, LoseList(s)
        PROVE  AppsInv'
    <2> DEFINE Fresh == {}
    <2>1. /\ scans' \subseteq scans \union {[r EXCEPT !.live = FALSE] : r \in scans} \union Fresh
          /\ \A r \in Fresh : \E b, l, m : r = Scan(b, l, m)
          /\ UNCHANGED <<world, starts, entries, suppressed, list, history>>
      BY <1>2 DEF LoseList
    <2> HIDE DEF Fresh
    <2> QED
      BY <2>1, ScansComeAndGo
  <1>3. ASSUME NEW k \in Keys, useAppDetail(k)
        PROVE  AppsInv'
    <2>1. PICK mute : entries' = afterGet(k, mute)
      BY <1>3 DEF useAppDetail
    <2>2. Keeps(entries')
      BY <2>1, GetKeeps
    <2>3. UNCHANGED <<world, starts, suppressed, scans, list, history>>
      BY <1>3 DEF useAppDetail
    <2> QED
      BY <2>2, <2>3, EntriesKept
  <1>4. ASSUME NEW o \in ops, AnswerRequest(o)
        PROVE  AppsInv'
    <2>1. \/ UNCHANGED scans
          \/ \E mute : scans' \subseteq scans \union {[s EXCEPT !.live = FALSE] : s \in scans}
                                 \union {Scan("page", TRUE, mute)}
      BY <1>4 DEF AnswerRequest, invalidate
    <2>2. UNCHANGED <<world, starts, entries, suppressed, list, history>>
      BY <1>4 DEF AnswerRequest
    <2>3. CASE UNCHANGED scans
      BY <2>2, <2>3, NothingChanges
    <2>4. ASSUME NEW mute, scans' \subseteq scans \union {[s EXCEPT !.live = FALSE] : s \in scans}
                                      \union {Scan("page", TRUE, mute)}
          PROVE  AppsInv'
      <3> DEFINE Fresh == {Scan("page", TRUE, mute)}
      <3>1. /\ scans' \subseteq scans \union {[s EXCEPT !.live = FALSE] : s \in scans} \union Fresh
            /\ \A s \in Fresh : \E b, l, m : s = Scan(b, l, m)
        BY <2>4
      <3> HIDE DEF Fresh
      <3> QED
        BY <2>2, <3>1, ScansComeAndGo
    <2> QED
      BY <2>1, <2>3, <2>4
  <1> QED
    BY <1>1, <1>2, <1>3, <1>4, ListAnswered DEF Network

\* Requests of the manager.
LEMMA ServerKeepsInv ==
    ASSUME AppsInv, Server
    PROVE  AppsInv'
  <1>1. ASSUME Manage PROVE AppsInv'
    BY <1>1, Resolved, Dismissed, Performed DEF Manage, Dismiss, clearNext
  <1> QED
    BY <1>1, WorldKeepsInv, Cleared DEF Server

LEMMA AppsStepInv ==
    ASSUME AppsInv, [AppsNext]_appVars
    PROVE  AppsInv'
  <1>1. CASE UNCHANGED appVars
    <2>1. UNCHANGED <<world, starts, entries, suppressed, scans, list, history>>
      BY <1>1 DEF appVars
    <2> QED
      BY <2>1, NothingChanges
  <1> QED
    BY <1>1, UserKeepsInv, NetworkKeepsInv, ServerKeepsInv DEF AppsNext

\* The inductive invariant holds.
THEOREM AppsInvariant ==
    AppsSpec => []AppsInv
  <1>1. AppsInv /\ [AppsNext]_appVars => AppsInv'
    BY AppsStepInv
  <1> QED
    BY <1>1, AppsInitInv, PTL DEF AppsSpec

\* A run stopped through the dashboard keeps its entry until it is started again or
\* dismissed, unless a scan older than its last start has spoken for it.
THEOREM StopsAreRemembered ==
    AppsSpec => []Remembered
  <1>1. AppsInv => Remembered
    BY DEF AppsInv, Memory, Snapped, Remembered
  <1> QED
    BY <1>1, AppsInvariant, PTL

\* A run stopped after the list last showed it is in every list received since.
THEOREM StoppedIsListed ==
    AppsSpec => []StoppedStaysListed
  <1>1. AppsInv => StoppedStaysListed
    BY DEF AppsInv, Memory, Snapped, StillListed, StoppedStaysListed
  <1> QED
    BY <1>1, AppsInvariant, PTL

\* An instance dismissed while nothing of it ran is in no later list until it runs again,
\* unless a scan older than the dismissal has spoken for it.
THEOREM DismissedIsHidden ==
    AppsSpec => []HiddenStays
  <1>1. AppsInv => HiddenStays
    BY DEF AppsInv, Hidden, Gone, ListShape, HiddenStays
  <1> QED
    BY <1>1, AppsInvariant, PTL

-----------------------------------------------------------------------------
(* The applications' pages: their types                                     *)

AppStatuses == {"sent", "begun", "ok", "error", "answered"}
AppRequests ==
    [kind : {"do", "row", "remove", "clear"}, key : Keys \union {NoKey}, target : Targets,
     action : Actions, status : AppStatuses, todo : Seq(Targets \union Keys), pid : [Targets -> Nat],
     mounted : BOOLEAN, leaves : BOOLEAN, waits : SUBSET {"list", "detail"}]
AppDialogs ==
    [kind : {"do", "row", "remove", "clear"}, key : Keys \union {NoKey}, target : Targets,
     action : Actions, leaves : BOOLEAN]
Contents == [app : Statuses, daprd : Statuses, orphaned : BOOLEAN]

\* A run has been started once, and no process of its is of a later start than the last.
Counted ==
    /\ \A k \in Runs : starts[k] \in 1..MaxPid
    /\ \A k \in Composes, t \in Targets : world[k][t] \in {0, 1}

\* An entry has a snapshot, and its snapshots are of starts there were.
Remembers(e, n) == DOMAIN e.procs # {} /\ \A t \in DOMAIN e.procs : e.procs[t] \in 1..n
Snapshots == \A k \in DOMAIN entries : Remembers(entries[k], starts[k])

\* The client waits for one listing at a time.
Awaits(s) == s.by = "page" /\ s.live = TRUE
Listings ==
    /\ \A s \in scans : s.by \in {"page", "clear"} /\ s.live \in BOOLEAN
    /\ \A s, r \in scans : Awaits(s) /\ Awaits(r) => s = r

\* A request that calls its page back does so to the page it was sent from.
Asks(o, p) ==
    /\ o \in AppRequests
    /\ (o.status = "begun") = (o.todo # <<>>)
    /\ o.kind = "clear" => o.todo \in Seq(Keys)
    /\ (o.status = "answered") = (o.waits # {})
    /\ o.status = "sent" => o.key \in Keys
    /\ o.mounted = TRUE => o.key \in Keys /\ p = o.key
Asking == \A o \in ops : Asks(o, page)

\* A dialog belongs to the page under it, whose content is there.
Details == detail \in [Keys -> [view : Seq(Contents), error : BOOLEAN]]
Belongs(d, p) ==
    /\ d \in AppDialogs
    /\ p = NoKey => d.kind \in {"row", "clear"} /\ (d.kind = "row" => d.key \in Keys)
    /\ p # NoKey => d.kind \in {"do", "remove"} /\ d.key = p
                    /\ detail[p].view # <<>> /\ detail[p].error = FALSE
Dialogue ==
    /\ page \in Keys \union {NoKey}
    /\ dialog = <<>> \/ \E d : dialog = <<d>> /\ Belongs(d, page)

AppsTyped ==
    Counted /\ Snapshots /\ suppressed \subseteq Keys /\ Listings /\ Asking /\ Details /\ Dialogue

-----------------------------------------------------------------------------
(* The server *)

\* Starts are counted, containers are up or not.
LEMMA CountedStays ==
    ASSUME AppsInv, Counted, AppsNext
    PROVE  Counted'
  <1>0. world \in [Keys -> [Targets -> Nat]] /\ starts \in [Keys -> Nat] /\ MaxPid \in Nat
    BY AppsAssumption DEF AppsInv, Processes
  <1>s. CASE UNCHANGED <<world, starts>>
    BY <1>s DEF Counted
  <1>1. ASSUME NEW k \in Runs, StartRun(k)
        PROVE  Counted'
    <2>1. /\ starts' = [starts EXCEPT ![k] = @ + 1] /\ starts[k] < MaxPid
          /\ world' = [world EXCEPT ![k] = [t \in Targets |-> starts[k] + 1]]
          /\ k \in Keys /\ k \notin Composes
      BY <1>1, AppsAssumption DEF StartRun, Keys
    <2>2. \A x \in Runs : starts'[x] \in 1..MaxPid
      BY <1>0, <2>1 DEF Counted, Keys
    <2>3. \A x \in Composes : world'[x] = world[x]
      BY <1>0, <2>1 DEF Keys
    <2> QED
      BY <2>2, <2>3 DEF Counted
  <1>2. ASSUME UNCHANGED starts, NEW k \in Keys, NEW t, NEW n \in {0, 1}, world' = [world EXCEPT ![k][t] = n]
        PROVE  Counted'
    <2>1. \A x \in Composes, y \in Targets : world'[x][y] \in {world[x][y], n}
      BY <1>0, <1>2 DEF Keys
    <2> QED
      BY <1>2, <2>1 DEF Counted
  <1>3. ASSUME UNCHANGED starts, NEW k \in Runs,
               world' = [world EXCEPT ![k] = [t \in Targets |-> 0]]
        PROVE  Counted'
    <2>1. \A x \in Composes : world'[x] = world[x]
      BY <1>0, <1>3, AppsAssumption DEF Keys
    <2> QED
      BY <1>3, <2>1 DEF Counted
  <1>4. CASE World
    <2>1. ASSUME NEW k \in Runs, Reap(k) PROVE Counted'
      BY <1>3, <2>1 DEF Reap
    <2>2. ASSUME NEW k \in Keys, NEW t, Die(k, t) PROVE Counted'
      BY <1>2, <2>2 DEF Die
    <2>3. ASSUME NEW k \in Composes, NEW h, StartContainer(k, h) PROVE Counted'
      BY <1>2, <2>3 DEF StartContainer, Keys
    <2> QED
      BY <1>1, <1>4, <2>1, <2>2, <2>3 DEF World, Keys
  <1>5. ASSUME NEW o \in ops, Perform(o)
        PROVE  Counted'
    <2>1. CASE terminateWithEscalation(o)
      <3>1. UNCHANGED starts /\ o.key \in Runs /\ o.key \in Keys
        BY <2>1 DEF terminateWithEscalation, Keys
      <3>2. \/ world' = [world EXCEPT ![o.key][Head(o.todo)] = 0]
            \/ world' = [world EXCEPT ![o.key] = [t \in Targets |-> 0]]
            \/ world' = world
        BY <2>1 DEF terminateWithEscalation, nobody
      <3> QED
        BY <1>s, <1>2, <1>3, <3>1, <3>2
    <2>2. CASE doCompose(o)
      <3>1. UNCHANGED starts /\ o.key \in Keys
        BY <2>2 DEF doCompose, Keys
      <3>2. \/ \E n \in {0, 1} : world' = [world EXCEPT ![o.key][Head(o.todo)] = n]
            \/ world' = world
        BY <2>2 DEF doCompose
      <3> QED
        BY <1>s, <1>2, <3>1, <3>2
    <2> QED
      BY <1>5, <2>1, <2>2 DEF Perform
  <1>6. CASE User
    BY <1>s, <1>6 DEF User
  <1>7. CASE Network
    BY <1>s, <1>7 DEF Network, useApps, AnswerList, LoseList, useAppDetail, AnswerRequest
  <1>8. CASE Server
    <2>1. ASSUME NEW o, NEW mute, doResolve(o, mute) PROVE Counted'
      BY <1>s, <2>1 DEF doResolve
    <2>2. ASSUME NEW k, dismiss(k) PROVE Counted'
      BY <1>s, <2>2 DEF dismiss
    <2>3. ASSUME NEW s, NEW a, ClearInactive(s, a) PROVE Counted'
      BY <1>s, <2>3 DEF ClearInactive
    <2> QED
      BY <1>4, <1>5, <1>8, <2>1, <2>2, <2>3 DEF Server, Manage, Dismiss, clearNext
  <1> QED
    BY <1>6, <1>7, <1>8 DEF AppsNext

\* A reconciliation drops snapshots, and an entry with its last one.
LEMMA SnapshotsReconciled ==
    ASSUME RunEntries, Snapshots, NEW V, NEW k \in DOMAIN reconciled(V)
    PROVE  k \in DOMAIN entries /\ Remembers(reconciled(V)[k], starts[k])
  <1> DEFINE rest == [t \in retained(k, V[k]) |-> entries[k].procs[t]]
  <1>1. k \in DOMAIN entries /\ (k \notin DOMAIN V \/ retained(k, V[k]) # {})
    BY DEF reconciled
  <1>2. Remembers(entries[k], starts[k]) /\ entries[k] \in Entry
    BY <1>1 DEF Snapshots, RunEntries
  <1>3. CASE k \notin DOMAIN V
    <2>1. reconciled(V)[k] = entries[k]
      BY <1>1, <1>3 DEF reconciled
    <2> QED
      BY <1>1, <1>2, <2>1
  <1>4. CASE k \in DOMAIN V
    <2>1. reconciled(V)[k] = [entries[k] EXCEPT !.procs = rest]
      BY <1>1, <1>4 DEF reconciled
    <2>2. retained(k, V[k]) \subseteq DOMAIN entries[k].procs
      BY <1>1 DEF retained, snapshots
    <2>3. DOMAIN rest # {} /\ \A t \in DOMAIN rest : rest[t] \in 1..starts[k]
      BY <1>1, <1>2, <1>4, <2>2 DEF Remembers
    <2> HIDE DEF rest
    <2>4. reconciled(V)[k].procs = rest
      BY <1>2, <2>1 DEF Entry
    <2> QED
      BY <1>1, <2>3, <2>4 DEF Remembers
  <1> QED
    BY <1>3, <1>4

\* So does a Get.
LEMMA SnapshotsGot ==
    ASSUME RunEntries, Snapshots, NEW k, NEW mute
    PROVE  \A x \in DOMAIN afterGet(k, mute) : x \in DOMAIN entries /\ Remembers(afterGet(k, mute)[x], starts[x])
  BY SnapshotsReconciled DEF afterGet, Snapshots

\* A recorded stop has the pids of the last start, and keeps those it has no news of.
LEMMA SnapshotsRecorded ==
    ASSUME AppsInv, Counted, NEW E, NEW k \in Runs,
           \A x \in DOMAIN E : E[x] \in Entry /\ Remembers(E[x], starts[x]),
           NEW in, \A t \in Targets : in.pid[t] \in {0, starts[k]}, \E t \in Targets : in.pid[t] # 0,
           NEW x \in DOMAIN RecordStop(E, k, in)
    PROVE  Remembers(RecordStop(E, k, in)[x], starts[x])
  <1> DEFINE old == IF k \in DOMAIN E THEN E[k].procs ELSE <<>>
             T == {t \in Targets : in.pid[t] # 0} \union DOMAIN old
             procs == [t \in T |-> IF in.pid[t] # 0 THEN in.pid[t] ELSE old[t]]
  <1>1. RecordStop(E, k, in) = [y \in DOMAIN E \union {k} |->
            IF y = k THEN [instance |-> in, procs |-> procs] ELSE E[y]]
    BY DEF RecordStop
  <1>2. starts[k] \in 1..MaxPid
    BY DEF Counted
  <1>3. \A t \in DOMAIN old : old[t] \in 1..starts[k]
    BY Nobody DEF Remembers
  <1>4. DOMAIN old \subseteq Targets
    BY Nobody DEF Entry, Procs
  <1>5. ASSUME NEW t \in T PROVE procs[t] \in 1..starts[k]
    <2>0. procs[t] = IF in.pid[t] # 0 THEN in.pid[t] ELSE old[t]
      OBVIOUS
    <2>1. t \in Targets
      BY <1>4
    <2> HIDE DEF old, procs
    <2>2. CASE in.pid[t] # 0
      BY <1>2, <2>0, <2>1, <2>2, AppsAssumption
    <2>3. CASE in.pid[t] = 0
      BY <1>3, <1>5, <2>0, <2>3
    <2> QED
      BY <2>2, <2>3
  <1>6. \E t \in Targets : t \in T
    OBVIOUS
  <1> HIDE DEF procs, T
  <1>7. DOMAIN procs = T
    BY DEF procs
  <1>8. CASE x = k
    <2>1. RecordStop(E, k, in)[x] = [instance |-> in, procs |-> procs]
      BY <1>1, <1>8
    <2> QED
      BY <1>5, <1>6, <1>7, <1>8, <2>1 DEF Remembers
  <1>9. CASE x # k
    BY <1>1, <1>9
  <1> QED
    BY <1>8, <1>9

\* Snapshots through a step.
LEMMA SnapshotsStay ==
    ASSUME AppsInv, Counted, Snapshots, AppsNext
    PROVE  Snapshots'
  <1>0. RunEntries /\ DOMAIN entries \subseteq Keys
    BY DEF AppsInv, RunEntries, Keys
  <1>s. CASE UNCHANGED <<starts, entries>>
    BY <1>s DEF Snapshots
  <1>1. ASSUME NEW k \in Runs, StartRun(k)
        PROVE  Snapshots'
    <2>1. UNCHANGED entries /\ starts' = [starts EXCEPT ![k] = @ + 1] /\ starts \in [Keys -> Nat]
      BY <1>1 DEF StartRun, AppsInv, Processes
    <2>2. \A x \in Keys : 1..starts[x] \subseteq 1..starts'[x]
      BY <2>1
    <2> QED
      BY <1>0, <2>1, <2>2 DEF Snapshots, Remembers
  <1>2. ASSUME UNCHANGED starts, NEW k, NEW mute, entries' = afterGet(k, mute)
        PROVE  Snapshots'
    BY <1>0, <1>2, SnapshotsGot DEF Snapshots
  <1>3. ASSUME UNCHANGED starts, NEW V, NEW K, entries' = Drop(K, reconciled(V))
        PROVE  Snapshots'
    <2>1. \A x \in DOMAIN entries' : x \in DOMAIN reconciled(V) /\ entries'[x] = reconciled(V)[x]
      BY <1>3 DEF Drop
    <2> QED
      BY <1>0, <1>3, <2>1, SnapshotsReconciled DEF Snapshots
  <1>4. ASSUME UNCHANGED starts, NEW V, entries' = reconciled(V)
        PROVE  Snapshots'
    BY <1>0, <1>4, SnapshotsReconciled DEF Snapshots
  <1>5. ASSUME UNCHANGED starts, NEW K, entries' = Drop(K, entries)
        PROVE  Snapshots'
    <2>1. \A x \in DOMAIN entries' : x \in DOMAIN entries /\ entries'[x] = entries[x]
      BY <1>5 DEF Drop
    <2> QED
      BY <1>5, <2>1 DEF Snapshots
  <1>6. ASSUME NEW o, NEW mute, doResolve(o, mute)
        PROVE  Snapshots'
    <2> DEFINE k == o.key
               found == Get(k, mute)
               in == found[1]
               E == afterGet(k, mute)
    <2>1. UNCHANGED starts
      BY <1>6 DEF doResolve
    <2>2. \/ entries' = E
          \/ /\ found # <<>> /\ k \in Runs /\ signalled(in, o.target) # <<>>
             /\ entries' = RecordStop(E, k, in)
      BY <1>6 DEF doResolve
    <2>3. CASE entries' = E
      BY <1>2, <2>1, <2>3
    <2>4. CASE /\ found # <<>> /\ k \in Runs /\ signalled(in, o.target) # <<>>
               /\ entries' = RecordStop(E, k, in)
      <3>1. in \in Instance /\ \A t \in Targets : in.pid[t] \in {0, starts[k]}
        BY <2>4, GetFinds
      <3>2. \E t \in Targets : in.pid[t] # 0
        BY <2>4, <3>1, Signalled
      <3>3. \A x \in DOMAIN E : E[x] \in Entry /\ Remembers(E[x], starts[x])
        BY <1>0, SnapshotsGot, GetKeeps DEF Keeps
      <3> HIDE DEF E, in, found, k
      <3> QED
        BY <2>1, <2>4, <3>1, <3>2, <3>3, SnapshotsRecorded DEF Snapshots
    <2> QED
      BY <2>2, <2>3, <2>4
  <1>7. CASE User
    BY <1>s, <1>7 DEF User
  <1>8. CASE Network
    <2>1. ASSUME NEW s, AnswerList(s) PROVE Snapshots'
      BY <1>4, <2>1 DEF AnswerList, List
    <2>2. ASSUME NEW k, useAppDetail(k) PROVE Snapshots'
      BY <1>2, <2>2 DEF useAppDetail
    <2>3. ASSUME NEW s, LoseList(s) PROVE Snapshots'
      BY <1>s, <2>3 DEF LoseList
    <2>4. ASSUME NEW o, AnswerRequest(o) PROVE Snapshots'
      BY <1>s, <2>4 DEF AnswerRequest
    <2>5. ASSUME useApps PROVE Snapshots'
      BY <1>s, <2>5 DEF useApps
    <2> QED
      BY <1>8, <2>1, <2>2, <2>3, <2>4, <2>5 DEF Network
  <1>9. CASE Server
    <2>1. ASSUME NEW k, dismiss(k) PROVE Snapshots'
      BY <1>5, <2>1 DEF dismiss
    <2>2. ASSUME NEW s, NEW q, ClearInactive(s, q) PROVE Snapshots'
      BY <1>4, <2>2 DEF ClearInactive, List
    <2>3. ASSUME NEW o, Perform(o) PROVE Snapshots'
      BY <1>s, <2>3 DEF Perform, terminateWithEscalation, doCompose
    <2>4. ASSUME World PROVE Snapshots'
      BY <1>s, <1>1, <2>4 DEF World, Reap, Die, StartContainer
    <2> QED
      BY <1>6, <1>9, <2>1, <2>2, <2>3, <2>4 DEF Server, Manage, Dismiss, clearNext
  <1> QED
    BY <1>7, <1>8, <1>9 DEF AppsNext

\* What a clearing comes to next is a key.
LEMMA NextCleared ==
    ASSUME NEW o, NEW p, Asks(o, p), o.kind = "clear", o.status = "begun"
    PROVE  Head(o.todo) \in Keys
  <1> DEFINE q == o.todo
  <1>1. q \in Seq(Keys) /\ q # <<>>
    BY DEF Asks
  <1> HIDE DEF q
  <1>2. Head(q) \in Keys
    BY <1>1
  <1> QED
    BY <1>2 DEF q

\* Only keys are suppressed: those of requests and of listings.
LEMMA SuppressedStay ==
    ASSUME AppsInv, Asking, suppressed \subseteq Keys, AppsNext
    PROVE  suppressed' \subseteq Keys
  <1>1. ASSUME NEW s \in scans
        PROVE  Unsuppressed(s.views) \subseteq Keys /\ Shown(s.views) \subseteq Keys
    BY Overlaid DEF Unsuppressed
  <1>2. CASE User
    BY <1>2 DEF User
  <1>3. CASE Network
    <2>1. ASSUME NEW s \in scans, AnswerList(s) PROVE suppressed' \subseteq Keys
      BY <1>1, <2>1 DEF AnswerList, List
    <2> QED
      BY <1>3, <2>1 DEF Network, LoseList, useAppDetail, AnswerRequest, useApps
  <1>4. CASE Server
    <2>1. ASSUME NEW k \in Keys, dismiss(k) PROVE suppressed' \subseteq Keys
      BY <2>1 DEF dismiss, Suppress
    <2>6. ASSUME NEW o \in ops, o.status = "sent", Dismiss(o) PROVE suppressed' \subseteq Keys
      BY <2>1, <2>6 DEF Dismiss, Asking, Asks
    <2>7. ASSUME NEW o \in ops, clearNext(o) PROVE suppressed' \subseteq Keys
      <3>1. Head(o.todo) \in Keys
        BY <2>7, NextCleared DEF clearNext, Asking
      <3> QED
        BY <2>1, <2>7, <3>1 DEF clearNext
    <2>2. ASSUME NEW s \in scans, NEW q, ClearInactive(s, q) PROVE suppressed' \subseteq Keys
      BY <1>1, <2>2 DEF ClearInactive, List
    <2>3. ASSUME NEW o, NEW mute, doResolve(o, mute) PROVE suppressed' \subseteq Keys
      BY <2>3 DEF doResolve
    <2>4. ASSUME NEW o, Perform(o) PROVE suppressed' \subseteq Keys
      BY <2>4 DEF Perform, terminateWithEscalation, doCompose
    <2>5. ASSUME World PROVE suppressed' \subseteq Keys
      BY <2>5 DEF World, StartRun, Reap, Die, StartContainer
    <2> QED
      BY <1>4, <2>2, <2>3, <2>4, <2>5, <2>6, <2>7 DEF Server, Manage
  <1> QED
    BY <1>2, <1>3, <1>4 DEF AppsNext

\* Listings come one at a time: a new one takes the place of the one that is given up.
LEMMA ListingsStay ==
    ASSUME AppsInv, Listings, AppsNext
    PROVE  Listings'
  <1>0. \A s \in scans : s = [views |-> s.views, by |-> s.by, live |-> s.live, older |-> s.older]
    BY DEF AppsInv, Scans, ScanShape
  <1>s. ASSUME scans' \subseteq scans
        PROVE  Listings'
    BY <1>s DEF Listings
  <1>1. ASSUME NEW S \in SUBSET scans, NEW K, scans' = overtaken(S, K)
        PROVE  Listings'
    <2>1. \A s \in scans' : \E r \in S : s = [r EXCEPT !.older = @ \union K]
      BY <1>1 DEF overtaken
    <2> DEFINE older(r) == [r EXCEPT !.older = @ \union K]
    <2>2. \A r \in S : older(r).by = r.by /\ older(r).live = r.live
      BY <1>0
    <2>3. \A s \in scans' : \E r \in S : s = older(r)
      BY <2>1
    <2> HIDE DEF older
    <2>4. \A s \in scans' : \E r \in scans : s = older(r) /\ s.by = r.by /\ s.live = r.live
      BY <2>2, <2>3
    <2>5. \A s \in scans' : s.by \in {"page", "clear"} /\ s.live \in BOOLEAN
      BY <2>4 DEF Listings
    <2>6. \A s \in scans' : \E r \in scans : s = older(r) /\ (Awaits(s) => Awaits(r))
      BY <2>4 DEF Awaits
    <2>7. \A s, r \in scans' : Awaits(s) /\ Awaits(r) => s = r
      BY <2>6 DEF Listings
    <2> QED
      BY <2>5, <2>7 DEF Listings
  <1>2. ASSUME NEW mute, scans' = scans \union {Scan("clear", FALSE, mute)}
        PROVE  Listings'
    <2> DEFINE new == Scan("clear", FALSE, mute)
    <2>1. new.by = "clear" /\ new.live = FALSE
      BY DEF Scan
    <2>2. scans' = scans \union {new}
      BY <1>2
    <2> HIDE DEF new
    <2> QED
      BY <2>1, <2>2 DEF Listings, Awaits
  <1>3. ASSUME useApps
        PROVE  Listings'
    <2>1. PICK mute : scans' = scans \union {Scan("page", TRUE, mute)}
      BY <1>3 DEF useApps
    <2>2. \A s \in scans : ~Awaits(s)
      BY <1>3 DEF useApps, Awaits
    <2> DEFINE new == Scan("page", TRUE, mute)
    <2>3. new.by = "page" /\ new.live = TRUE
      BY DEF Scan
    <2>4. scans' = scans \union {new}
      BY <2>1
    <2> HIDE DEF new
    <2> QED
      BY <2>2, <2>3, <2>4 DEF Listings, Awaits
  <1>4. ASSUME invalidate
        PROVE  Listings'
    <2> DEFINE givenUp == {s \in scans : s.by = "page" /\ s.live}
    <2>1. PICK mute : scans' = (scans \ givenUp) \union {[s EXCEPT !.live = FALSE] : s \in givenUp}
                        \union {Scan("page", TRUE, mute)}
      BY <1>4 DEF invalidate
    <2>2. \A s \in scans : Awaits(s) => s \in givenUp
      BY DEF Awaits
    <2>3. ASSUME NEW s \in givenUp
          PROVE  [s EXCEPT !.live = FALSE].by = s.by /\ [s EXCEPT !.live = FALSE].live = FALSE
      BY <1>0
    <2>4. givenUp \subseteq scans
      OBVIOUS
    <2> DEFINE new == Scan("page", TRUE, mute)
    <2>5. new.by = "page" /\ new.live = TRUE
      BY DEF Scan
    <2>6. ASSUME NEW s \in scans'
          PROVE  s.by \in {"page", "clear"} /\ s.live \in BOOLEAN /\ (s = new \/ ~Awaits(s))
      <3>1. CASE s = new
        <4> HIDE DEF new
        <4> QED
          BY <2>5, <3>1
      <3>2. CASE s \in scans \ givenUp
        BY <2>2, <3>2 DEF Listings
      <3>3. ASSUME NEW r \in givenUp, s = [r EXCEPT !.live = FALSE]
            PROVE  s.by \in {"page", "clear"} /\ s.live \in BOOLEAN /\ ~Awaits(s)
        <4> HIDE DEF givenUp
        <4> QED
          BY <2>3, <2>4, <3>3 DEF Listings, Awaits
      <3> QED
        BY <2>1, <3>1, <3>2, <3>3
    <2> HIDE DEF givenUp, new
    <2> QED
      BY <2>6 DEF Listings
  <1>5. CASE User
    <2>1. CASE onConfirm
      BY <1>s, <1>2, <2>1 DEF onConfirm
    <2> QED
      BY <1>s, <1>5, <2>1 DEF User, Applications, onOpen, confirmRemove, confirmClear, AppDetail,
                              AppDetailContent, runAction, removeFromList, navigate, onCancel
  <1>6. CASE Network
    <2>1. ASSUME NEW o, AnswerRequest(o) PROVE Listings'
      BY <1>s, <1>4, <2>1 DEF AnswerRequest
    <2> QED
      BY <1>s, <1>3, <1>6, <2>1 DEF Network, AnswerList, LoseList, useAppDetail
  <1>7. CASE Server
    <2>1. ASSUME NEW k, dismiss(k) PROVE Listings'
      BY <1>1, <2>1 DEF dismiss, overtake
    <2>2. ASSUME NEW s, NEW q, ClearInactive(s, q) PROVE Listings'
      BY <1>s, <2>2 DEF ClearInactive
    <2>3. ASSUME NEW o, NEW mute, doResolve(o, mute) PROVE Listings'
      BY <1>s, <2>3 DEF doResolve
    <2>4. ASSUME NEW o, Perform(o) PROVE Listings'
      BY <1>s, <2>4 DEF Perform, terminateWithEscalation, doCompose
    <2>5. ASSUME World PROVE Listings'
      BY <1>s, <1>1, <2>5 DEF World, StartRun, Reap, Die, StartContainer, overtake
    <2> QED
      BY <1>7, <2>1, <2>2, <2>3, <2>4, <2>5 DEF Server, Manage, Dismiss, clearNext
  <1> QED
    BY <1>5, <1>6, <1>7 DEF AppsNext

-----------------------------------------------------------------------------
(* Requests *)

\* A request that has been served.
LEMMA DoneAsks ==
    ASSUME NEW o, NEW p, Asks(o, p), o.status \in {"sent", "begun"}, NEW end \in {"ok", "error"}
    PROVE  Asks(done(o, end), p)
  <1>1. o \in AppRequests /\ o.waits = {} /\ end \in AppStatuses
    BY DEF Asks, AppStatuses
  <1>2. <<>> \in Seq(Targets \union Keys) /\ <<>> \in Seq(Keys) /\ nobody \in [Targets -> Nat]
    BY DEF nobody
  <1> DEFINE r == [o EXCEPT !.status = end, !.todo = <<>>, !.pid = nobody]
  <1>3. r = [o EXCEPT !.status = end, !.todo = <<>>, !.pid = nobody]
    OBVIOUS
  <1> HIDE DEF r
  <1>4. r \in AppRequests /\ r.status = end /\ r.todo = <<>> /\ r.key = o.key
        /\ r.mounted = o.mounted /\ r.waits = o.waits
    BY <1>1, <1>2, <1>3 DEF AppRequests
  <1>5. /\ done(o, end) \in AppRequests /\ done(o, end).status = end
        /\ done(o, end).todo = <<>> /\ done(o, end).key = o.key
        /\ done(o, end).mounted = o.mounted /\ done(o, end).waits = {}
    BY <1>1, <1>4, <1>3 DEF done
  <1> QED
    BY <1>1, <1>2, <1>5 DEF Asks

\* A request that has a process, a container or an instance before it.
LEMMA BegunAsks ==
    ASSUME NEW o, NEW p, Asks(o, p), o.status \in {"sent", "begun"},
           NEW todo \in Seq(Targets \union Keys), todo # <<>>, NEW pid \in [Targets -> Nat],
           o.kind = "clear" => todo \in Seq(Keys)
    PROVE  Asks([o EXCEPT !.status = "begun", !.todo = todo, !.pid = pid], p)
  <1> DEFINE r == [o EXCEPT !.status = "begun", !.todo = todo, !.pid = pid]
  <1>1. o \in AppRequests /\ o.waits = {} /\ "begun" \in AppStatuses
    BY DEF Asks, AppStatuses
  <1>2. r = [o EXCEPT !.status = "begun", !.todo = todo, !.pid = pid]
    OBVIOUS
  <1> HIDE DEF r
  <1>3. /\ r \in AppRequests /\ r.status = "begun" /\ r.todo = todo /\ r.kind = o.kind
        /\ r.key = o.key /\ r.mounted = o.mounted /\ r.waits = o.waits
    BY <1>1, <1>2 DEF AppRequests
  <1>4. Asks(r, p)
    BY <1>1, <1>3 DEF Asks
  <1> QED
    BY <1>4 DEF r

\* What comes after the first of several.
LEMMA RestAfter ==
    ASSUME NEW S, NEW s \in Seq(S), s # <<>>, Len(s) # 1
    PROVE  Tail(s) \in Seq(S) /\ Tail(s) # <<>>
  <1>1. Len(s) \in Nat \ {0}
    BY EmptySeq
  <1>2. Len(s) \in Nat /\ Len(s) > 1
    <2>1. \A n \in Nat \ {0} : n # 1 => n \in Nat /\ n > 1
      OBVIOUS
    <2> QED
      BY <1>1, <2>1, Zenon
  <1>3. Tail(s) \in Seq(S) /\ Len(Tail(s)) = Len(s) - 1
    BY <1>2
  <1>4. Len(<<>>) = 0
    BY EmptySeq
  <1>5. Len(Tail(s)) # 0
    BY <1>2, <1>3
  <1> QED
    BY <1>3, <1>4, <1>5

\* What a stop or a container action has before it are targets.
LEMMA TargetsBefore ==
    ASSUME NEW in, NEW target \in Targets, NEW action
    PROVE  /\ signalled(in, target) \in Seq(Targets \union Keys)
           /\ composeTargets(target, action) \in Seq(Targets \union Keys)
  <1> DEFINE S == Targets \union Keys
  <1>1. "app" \in S /\ "daprd" \in S /\ "all" \in S /\ target \in S
    BY DEF Targets, Halves
  <1> HIDE DEF S
  <1>2. \A t \in S : <<t>> \in Seq(S) /\ signalTo(in, t) \in Seq(S)
    BY DEF signalTo
  <1>3. signalTo(in, "app") \o signalTo(in, "daprd") \in Seq(S)
    BY <1>1, <1>2
  <1>4. <<"app", "daprd">> \in Seq(S) /\ <<"daprd", "app">> \in Seq(S)
    BY <1>1
  <1> QED
    BY <1>1, <1>2, <1>3, <1>4 DEF signalled, composeTargets, S

\* Some requests stay, others are as they ask.
LEMMA AskingOn ==
    ASSUME Asking, UNCHANGED page, \A o \in ops' : o \in ops \/ Asks(o, page)
    PROVE  Asking'
  BY DEF Asking, Asks

\* A request goes on to what is next, and is served after the last.
LEMMA ProgressAsks ==
    ASSUME Asking, UNCHANGED page, NEW o \in ops, o.status = "begun", progress(o) \/ failure(o)
    PROVE  Asking'
  <1>1. Asks(o, page) /\ o \in AppRequests /\ o.todo # <<>>
    BY DEF Asking, Asks
  <1>2. o.todo \in Seq(Targets \union Keys) /\ o.pid \in [Targets -> Nat]
    BY <1>1 DEF AppRequests
  <1>3. o.kind = "clear" => o.todo \in Seq(Keys)
    BY <1>1 DEF Asks
  <1>4. Asks(done(o, "ok"), page) /\ Asks(done(o, "error"), page)
    BY <1>1, DoneAsks
  <1>5. ASSUME Len(o.todo) # 1
        PROVE  Asks([o EXCEPT !.todo = Tail(@)], page)
    <2>1. Tail(o.todo) \in Seq(Targets \union Keys) /\ Tail(o.todo) # <<>>
      BY <1>1, <1>2, <1>5, RestAfter
    <2>2. o.kind = "clear" => Tail(o.todo) \in Seq(Keys)
      BY <1>1, <1>3, <1>5, RestAfter
    <2>3. Asks([o EXCEPT !.status = "begun", !.todo = Tail(o.todo), !.pid = o.pid], page)
      BY <1>1, <1>2, <2>1, <2>2, BegunAsks
    <2>4. [o EXCEPT !.status = "begun", !.todo = Tail(o.todo), !.pid = o.pid] = [o EXCEPT !.todo = Tail(@)]
      BY <1>1 DEF AppRequests
    <2> QED
      BY <2>3, <2>4
  <1>6. CASE progress(o)
    BY <1>4, <1>5, <1>6, AskingOn DEF progress
  <1>7. CASE failure(o)
    BY <1>4, <1>7, AskingOn DEF failure
  <1> QED
    BY <1>6, <1>7

\* A query that answers takes itself off what is waited for.
LEMMA WaitingAsks ==
    ASSUME Asking, NEW w \in {"list", "detail"}, NEW o \in waiting(w)
    PROVE  Asks(o, page)
  <1>1. PICK r \in ops \ landed(w) : o = [r EXCEPT !.waits = @ \ {w}]
    BY DEF waiting
  <1>2. r \in AppRequests /\ Asks(r, page)
    BY DEF Asking, Asks
  <1>3. /\ o \in AppRequests /\ o.waits = r.waits \ {w} /\ o.status = r.status /\ o.todo = r.todo
        /\ o.kind = r.kind /\ o.key = r.key /\ o.mounted = r.mounted
    BY <1>1, <1>2 DEF AppRequests
  <1>4. ~(r.status = "answered" /\ r.waits = {w})
    BY <1>1 DEF landed
  <1>5. r.waits \subseteq {"list", "detail"}
    BY <1>2 DEF AppRequests
  <1>6. (o.status = "answered") = (o.waits # {})
    BY <1>2, <1>3, <1>4, <1>5 DEF Asks
  <1> QED
    BY <1>2, <1>3, <1>6 DEF Asks

\* Requests nobody waits for.
LEMMA OrphansAsk ==
    ASSUME NEW O, NEW p, \A o \in O : Asks(o, p), NEW q, NEW o \in orphans(O)
    PROVE  Asks(o, q)
  <1>1. PICK r \in O : r.status # "answered" /\ o = [r EXCEPT !.mounted = FALSE]
    BY DEF orphans
  <1>2. r \in AppRequests /\ Asks(r, p)
    BY DEF Asks
  <1>3. /\ o \in AppRequests /\ o.waits = r.waits /\ o.status = r.status /\ o.todo = r.todo
        /\ o.kind = r.kind /\ o.key = r.key /\ o.mounted = FALSE
    BY <1>1, <1>2 DEF AppRequests
  <1> QED
    BY <1>2, <1>3 DEF Asks

\* The content goes, or the query's answer is waited for no longer.
LEMMA QueryAnswers ==
    ASSUME Asking, NEW w \in {"list", "detail"},
           \/ ops' = orphans(waiting(w))
           \/ ops' = waiting(w) /\ page' = page
    PROVE  Asking'
  <1>1. CASE ops' = waiting(w) /\ page' = page
    BY <1>1, WaitingAsks DEF Asking, Asks
  <1>2. CASE ops' = orphans(waiting(w))
    <2>1. \A o \in ops' : Asks(o, page')
      BY <1>2, WaitingAsks, OrphansAsk
    <2> QED
      BY <2>1 DEF Asking, Asks
  <1> QED
    BY <1>1, <1>2

\* The manager's part of a request.
LEMMA ManagerAsks ==
    ASSUME AppsInv, Asking, UNCHANGED page, Manage
    PROVE  Asking'
  <1>1. ASSUME NEW o \in ops, o.status = "sent", o.kind = "do", NEW mute, doResolve(o, mute)
        PROVE  Asking'
    <2> DEFINE found == Get(o.key, mute)
               in == found[1]
               todo == IF o.key \in Runs THEN signalled(in, o.target) ELSE composeTargets(o.target, o.action)
    <2>1. Asks(o, page) /\ o \in AppRequests /\ o.target \in Targets
      BY DEF Asking, Asks, AppRequests
    <2>2. todo \in Seq(Targets \union Keys)
      BY <2>1, TargetsBefore
    <2>3. \/ ops' = (ops \ {o}) \union {done(o, "error")}
          \/ /\ found # <<>> /\ todo # <<>>
             /\ ops' = (ops \ {o}) \union {[o EXCEPT !.status = "begun", !.todo = todo, !.pid = in.pid]}
      BY <1>1 DEF doResolve
    <2>4. found # <<>> => in.pid \in [Targets -> Nat]
      <3>1. found # <<>> => in \in Instance
        BY GetFinds
      <3> HIDE DEF in, found
      <3> QED
        BY <3>1 DEF Instance
    <2>5. Asks(done(o, "error"), page)
      BY <1>1, <2>1, DoneAsks
    <2> HIDE DEF todo, in, found
    <2>6. found # <<>> /\ todo # <<>> =>
              Asks([o EXCEPT !.status = "begun", !.todo = todo, !.pid = in.pid], page)
      BY <1>1, <2>1, <2>2, <2>4, BegunAsks
    <2> QED
      BY <2>3, <2>5, <2>6, AskingOn
  <1>2. ASSUME NEW o \in ops, o.status = "sent", Dismiss(o)
        PROVE  Asking'
    <2>1. Asks(o, page) /\ o \in AppRequests /\ o.todo = <<>> /\ o.waits = {}
      BY <1>2 DEF Asking, Asks
    <2> DEFINE r == [o EXCEPT !.status = "ok"]
    <2>2. /\ r \in AppRequests /\ r.status = "ok" /\ r.todo = <<>> /\ r.waits = {}
          /\ r.key = o.key /\ r.mounted = o.mounted /\ r.kind = o.kind
      BY <2>1 DEF AppRequests, AppStatuses
    <2>3. ops' = (ops \ {o}) \union {r}
      BY <1>2 DEF Dismiss
    <2> HIDE DEF r
    <2>4. Asks(r, page)
      BY <2>1, <2>2 DEF Asks
    <2> QED
      BY <2>3, <2>4, AskingOn
  <1>3. ASSUME NEW o \in ops, Perform(o)
        PROVE  Asking'
    <2>1. o.status = "begun" /\ (progress(o) \/ failure(o))
      BY <1>3 DEF Perform, terminateWithEscalation, doCompose
    <2> QED
      BY <2>1, ProgressAsks
  <1>4. ASSUME NEW o \in ops, clearNext(o)
        PROVE  Asking'
    BY <1>4, ProgressAsks DEF clearNext
  <1> QED
    BY <1>1, <1>2, <1>3, <1>4 DEF Manage

\* A query for the detail page: what it shows has its type.
LEMMA DetailsStay ==
    ASSUME AppsInv, Details, AppsNext
    PROVE  Details'
  <1>s. CASE UNCHANGED detail
    BY <1>s DEF Details
  <1>1. ASSUME NEW k \in Keys, useAppDetail(k)
        PROVE  Details'
    <2>1. PICK mute : detail' = [detail EXCEPT ![k] =
                    IF Get(k, mute) = <<>> THEN [@ EXCEPT !.error = TRUE]
                    ELSE [error |-> FALSE,
                          view |-> <<[app |-> Get(k, mute)[1].app, daprd |-> Get(k, mute)[1].daprd,
                                      orphaned |-> Get(k, mute)[1].orphaned]>>]]
      BY <1>1 DEF useAppDetail
    <2> DEFINE got == Get(k, mute)
               c == [app |-> got[1].app, daprd |-> got[1].daprd, orphaned |-> got[1].orphaned]
               Shows == [view : Seq(Contents), error : BOOLEAN]
    <2>2. got # <<>> => c \in Contents
      <3>1. got # <<>> => got[1] \in Instance
        BY GetFinds
      <3> HIDE DEF got
      <3> QED
        BY <3>1 DEF Instance, Contents
    <2>3. got # <<>> => [error |-> FALSE, view |-> <<c>>] \in Shows
      <3> HIDE DEF c, got
      <3> QED
        BY <2>2
    <2>4. detail[k] \in Shows /\ [detail[k] EXCEPT !.error = TRUE] \in Shows
      BY DEF Details
    <2> DEFINE e == IF got = <<>> THEN [detail[k] EXCEPT !.error = TRUE] ELSE [error |-> FALSE, view |-> <<c>>]
    <2>5. detail' = [detail EXCEPT ![k] = e]
      BY <2>1
    <2>6. e \in Shows
      BY <2>3, <2>4
    <2> HIDE DEF e
    <2> QED
      BY <2>5, <2>6 DEF Details
  <1>2. CASE User
    BY <1>s, <1>2 DEF User, Applications, onOpen, confirmRemove, confirmClear, AppDetail, AppDetailContent,
                      runAction, removeFromList, navigate, onConfirm, onCancel
  <1>3. CASE Network
    BY <1>s, <1>1, <1>3 DEF Network, useApps, client, AnswerList, LoseList, AnswerRequest
  <1>4. CASE Server
    BY <1>s, <1>4 DEF Server, client
  <1> QED
    BY <1>2, <1>3, <1>4 DEF AppsNext

\* The answers of queries and requests.
LEMMA NetworkAsks ==
    ASSUME Asking, Network
    PROVE  Asking'
  <1>s. CASE UNCHANGED <<page, ops>>
    BY <1>s, AskingOn
  <1>1. ASSUME NEW s, AnswerList(s)
        PROVE  Asking'
    <2>1. \/ UNCHANGED <<page, ops>>
          \/ ops' = orphans(waiting("list"))
          \/ ops' = waiting("list") /\ page' = page
      BY <1>1 DEF AnswerList
    <2> QED
      BY <1>s, <2>1, QueryAnswers
  <1>2. ASSUME NEW s, LoseList(s)
        PROVE  Asking'
    <2>1. \/ ops' = orphans(waiting("list"))
          \/ ops' = waiting("list") /\ page' = page
      BY <1>2 DEF LoseList
    <2> QED
      BY <2>1, QueryAnswers
  <1>3. ASSUME NEW k, useAppDetail(k)
        PROVE  Asking'
    <2>1. \/ ops' = orphans(waiting("detail"))
          \/ ops' = waiting("detail") /\ page' = page
      BY <1>3 DEF useAppDetail
    <2> QED
      BY <2>1, QueryAnswers
  <1>4. ASSUME NEW o \in ops, AnswerRequest(o)
        PROVE  Asking'
    <2>1. page' = page /\ o \in AppRequests /\ Asks(o, page)
      BY <1>4 DEF AnswerRequest, client, Asking, Asks
    <2> DEFINE r == [o EXCEPT !.status = "answered", !.waits = {"list", "detail"}]
    <2>2. \/ ops' \subseteq ops
          \/ o.status = "ok" /\ ops' = (ops \ {o}) \union {r}
      BY <1>4 DEF AnswerRequest
    <2>3. /\ r \in AppRequests /\ r.status = "answered" /\ r.waits = {"list", "detail"}
          /\ r.todo = o.todo /\ r.key = o.key /\ r.mounted = o.mounted /\ r.kind = o.kind
      BY <2>1 DEF AppRequests, AppStatuses
    <2> HIDE DEF r
    <2>4. o.status = "ok" => Asks(r, page)
      BY <2>1, <2>3 DEF Asks
    <2> QED
      BY <2>1, <2>2, <2>4, AskingOn
  <1>5. CASE useApps
    BY <1>s, <1>5 DEF useApps, client
  <1> QED
    BY <1>1, <1>2, <1>3, <1>4, <1>5 DEF Network

\* A request as it is sent, of a dialog or of a listing that clears.
LEMMA SentAsks ==
    ASSUME NEW kind \in {"do", "row", "remove", "clear"}, NEW key \in Keys \union {NoKey}, NEW target \in Targets,
           NEW action \in Actions, NEW awaited \in BOOLEAN, NEW leaves \in BOOLEAN, NEW p
    PROVE  /\ Request(kind, key, target, action, awaited, leaves) \in AppRequests
           /\ key \in Keys /\ (awaited = TRUE => p = key) =>
                  Asks(Request(kind, key, target, action, awaited, leaves), p)
  <1> DEFINE r == Request(kind, key, target, action, awaited, leaves)
  <1>1. r = [kind |-> kind, key |-> key, target |-> target, action |-> action, status |-> "sent",
             todo |-> <<>>, pid |-> nobody, mounted |-> awaited, leaves |-> leaves, waits |-> {}]
    BY DEF Request
  <1>2. /\ <<>> \in Seq(Targets \union Keys) /\ <<>> \in Seq(Keys)
        /\ nobody \in [Targets -> Nat] /\ {} \in SUBSET {"list", "detail"}
    BY DEF nobody
  <1> HIDE DEF r
  <1>3. r \in AppRequests
    BY <1>1, <1>2 DEF AppRequests, AppStatuses
  <1>4. r.status = "sent" /\ r.todo = <<>> /\ r.key = key /\ r.mounted = awaited /\ r.waits = {}
    BY <1>1
  <1>5. key \in Keys /\ (awaited = TRUE => p = key) => Asks(r, p)
    BY <1>2, <1>3, <1>4 DEF Asks
  <1> QED
    BY <1>3, <1>5 DEF r

\* The user's part: opening a page, leaving it, and confirming.
LEMMA UserAsks ==
    ASSUME Asking, Dialogue, User
    PROVE  Asking'
  <1>s. CASE UNCHANGED <<page, ops>>
    BY <1>s, AskingOn
  <1>1. ASSUME NEW k, page = NoKey, onOpen(k)
        PROVE  Asking'
    <2>1. UNCHANGED ops
      BY <1>1 DEF onOpen
    <2>2. \A o \in ops : Asks(o, page')
      BY <1>1, NoKeyAssumption DEF Asking, Asks
    <2> QED
      BY <2>1, <2>2 DEF Asking, Asks
  <1>2. CASE navigate
    <2>1. \A o \in ops' : Asks(o, page')
      BY <1>2, OrphansAsk DEF navigate, Asking
    <2> QED
      BY <2>1 DEF Asking, Asks
  <1>3. CASE onConfirm
    <2>1. PICK d \in {dialog[i] : i \in DOMAIN dialog} :
              IF d.kind = "clear" THEN UNCHANGED ops
              ELSE ops' = ops \union {Request(d.kind, d.key, d.target, d.action, d.kind # "row", d.leaves)}
      BY <1>3 DEF onConfirm
    <2>2. page' = page
      BY <1>3 DEF onConfirm
    <2>3. Belongs(d, page)
      <3>1. PICK e : dialog = <<e>> /\ Belongs(e, page)
        BY <2>1, Nobody DEF Dialogue
      <3>2. d = e
        BY <2>1, <3>1
      <3> QED
        BY <3>1, <3>2
    <2>4. d \in AppDialogs
      BY <2>3 DEF Belongs
    <2>5. d.kind # "clear" => d.key \in Keys /\ (d.kind # "row" => page = d.key)
      BY <2>3 DEF Belongs, Dialogue
    <2> DEFINE r == Request(d.kind, d.key, d.target, d.action, d.kind # "row", d.leaves)
    <2>6. d.kind # "clear" => Asks(r, page)
      <3>1. /\ d.kind \in {"do", "row", "remove", "clear"} /\ d.key \in Keys \union {NoKey} /\ d.target \in Targets
            /\ d.action \in Actions /\ d.leaves \in BOOLEAN /\ (d.kind # "row") \in BOOLEAN
        BY <2>4 DEF AppDialogs
      <3> QED
        BY <2>5, <3>1, SentAsks
    <2> HIDE DEF r
    <2> QED
      BY <2>1, <2>2, <2>6, AskingOn DEF r
  <1>4. CASE onCancel
    BY <1>s, <1>4 DEF onCancel
  <1>5. CASE Applications
    BY <1>s, <1>1, <1>5 DEF Applications, confirmRemove, confirmClear
  <1>6. CASE AppDetail
    BY <1>s, <1>2, <1>6 DEF AppDetail, AppDetailContent, runAction, removeFromList
  <1> QED
    BY <1>2, <1>3, <1>4, <1>5, <1>6 DEF User

\* A clearing that has instances before it, or nothing to dismiss.
LEMMA Clearing ==
    LET request == Request("clear", NoKey, "all", "stop", FALSE, FALSE)
    IN  /\ Asks(done(request, "ok"), page)
        /\ \A q \in Seq(Keys) :
              q # <<>> => Asks([request EXCEPT !.status = "begun", !.todo = q], page)
  <1> DEFINE request == Request("clear", NoKey, "all", "stop", FALSE, FALSE)
  <1>1. "all" \in Targets /\ "stop" \in Actions
    BY DEF Targets, Actions
  <1>2. request \in AppRequests
    BY <1>1, SentAsks
  <1>3. /\ request.kind = "clear" /\ request.mounted = FALSE /\ request.waits = {}
        /\ done(request, "ok") = [request EXCEPT !.status = "ok", !.todo = <<>>, !.pid = nobody]
    BY DEF Request, done
  <1>4. /\ <<>> \in Seq(Targets \union Keys) /\ <<>> \in Seq(Keys) /\ nobody \in [Targets -> Nat]
        /\ "ok" \in AppStatuses /\ "begun" \in AppStatuses
    BY DEF nobody, AppStatuses
  <1> HIDE DEF request
  <1>5. Asks(done(request, "ok"), page)
    <2> DEFINE r == done(request, "ok")
    <2>1. /\ r \in AppRequests /\ r.status = "ok" /\ r.todo = <<>>
          /\ r.waits = {} /\ r.mounted = FALSE
      BY <1>2, <1>3, <1>4 DEF AppRequests
    <2> HIDE DEF r
    <2>2. Asks(r, page)
      BY <1>4, <2>1 DEF Asks
    <2> QED
      BY <2>2 DEF r
  <1>6. ASSUME NEW q \in Seq(Keys), q # <<>>
        PROVE  Asks([request EXCEPT !.status = "begun", !.todo = q], page)
    <2> DEFINE r == [request EXCEPT !.status = "begun", !.todo = q]
    <2>1. q \in Seq(Targets \union Keys)
      OBVIOUS
    <2>2. /\ r \in AppRequests /\ r.status = "begun" /\ r.todo = q
          /\ r.waits = {} /\ r.mounted = FALSE
      BY <1>2, <1>3, <1>4, <2>1 DEF AppRequests
    <2> HIDE DEF r
    <2>3. Asks(r, page)
      BY <1>6, <2>2 DEF Asks
    <2> QED
      BY <2>3 DEF r
  <1> QED
    BY <1>5, <1>6 DEF request

\* The server's part.
LEMMA ServerAsks ==
    ASSUME AppsInv, Asking, Server
    PROVE  Asking'
  <1>0. page' = page
    BY DEF Server, client
  <1>1. CASE Manage
    BY <1>0, <1>1, ManagerAsks
  <1>2. CASE World
    <2>1. UNCHANGED ops
      BY <1>2 DEF World, StartRun, Reap, Die, StartContainer
    <2> QED
      BY <1>0, <2>1, AskingOn
  <1>3. ASSUME NEW s \in scans,
               ClearInactive(s, Request("clear", NoKey, "all", "stop", FALSE, FALSE))
        PROVE  Asking'
    <2> DEFINE request == Request("clear", NoKey, "all", "stop", FALSE, FALSE)
               K == {k \in Shown(s.views) : fullyStopped(Listing(s.views)[k])}
    <2>1. PICK q \in orders(K) :
              ops' = ops \union {IF q = <<>> THEN done(request, "ok")
                                ELSE [request EXCEPT !.status = "begun", !.todo = q]}
      BY <1>3 DEF ClearInactive
    <2>2. q \in Seq(Keys)
      <3>1. Shown(s.views) \subseteq Keys
        BY Overlaid
      <3>2. K \subseteq Keys /\ IsFiniteSet(K)
        BY <3>1, AppsAssumption, FS_Subset DEF Keys
      <3>3. Cardinality(K) \in Nat
        BY <3>2, FS_CardinalityType
      <3> HIDE DEF K
      <3>4. q \in [1 .. Cardinality(K) -> Keys]
        BY <3>2 DEF orders
      <3> QED
        BY <3>3, <3>4
    <2>3. Asks(done(request, "ok"), page)
      BY Clearing
    <2>4. q # <<>> => Asks([request EXCEPT !.status = "begun", !.todo = q], page)
      BY <2>2, Clearing
    <2> QED
      BY <1>0, <2>1, <2>3, <2>4, AskingOn
  <1> QED
    BY <1>1, <1>2, <1>3 DEF Server

-----------------------------------------------------------------------------
(* Pages and dialogs *)

\* The list, or the page of a key, without a dialog.
LEMMA NoDialogue ==
    ASSUME page' \in Keys \union {NoKey}, dialog' = <<>>
    PROVE  Dialogue'
  BY DEF Dialogue

\* A dialog that opens over the page it belongs to.
LEMMA DialogueOpens ==
    ASSUME Dialogue, UNCHANGED <<page, detail>>, NEW d, open(d), Belongs(d, page)
    PROVE  Dialogue'
  <1>1. Belongs(d, page)'
    BY DEF Belongs
  <1> QED
    BY <1>1 DEF Dialogue, open

\* The dialogs of the list.
LEMMA ListDialogues ==
    ASSUME AppsInv, Dialogue, UNCHANGED detail, Applications
    PROVE  Dialogue'
  <1>0. page = NoKey /\ "all" \in Targets /\ "stop" \in Actions
    BY DEF Applications, Targets, Actions
  <1>1. ASSUME NEW k \in Keys, onOpen(k)
        PROVE  Dialogue'
    BY <1>1, NoDialogue DEF onOpen
  <1>2. ASSUME NEW k \in Keys, confirmRemove(k)
        PROVE  Dialogue'
    <2> DEFINE d == Dialog("row", k, "all", "stop", FALSE)
    <2>1. d \in AppDialogs /\ d.kind = "row" /\ d.key = k
      BY <1>0 DEF Dialog, AppDialogs
    <2>2. open(d) /\ UNCHANGED page
      BY <1>2 DEF confirmRemove
    <2> HIDE DEF d
    <2>3. Belongs(d, page)
      BY <1>0, <2>1 DEF Belongs
    <2> QED
      BY <2>2, <2>3, DialogueOpens
  <1>3. CASE confirmClear
    <2> DEFINE d == Dialog("clear", NoKey, "all", "stop", FALSE)
    <2>1. d \in AppDialogs /\ d.kind = "clear"
      BY <1>0 DEF Dialog, AppDialogs
    <2>2. open(d) /\ UNCHANGED page
      BY <1>3 DEF confirmClear
    <2> HIDE DEF d
    <2>3. Belongs(d, page)
      BY <1>0, <2>1 DEF Belongs
    <2> QED
      BY <2>2, <2>3, DialogueOpens
  <1> QED
    BY <1>1, <1>2, <1>3 DEF Applications

\* The dialogs of a detail page.
LEMMA DetailDialogues ==
    ASSUME AppsInv, Details, Dialogue, AppDetail
    PROVE  Dialogue'
  <1>1. CASE navigate
    BY <1>1, NoDialogue DEF navigate
  <1>2. ASSUME NEW k \in Keys, page = k, mounted(k), runAction(k) \/ removeFromList(k)
        PROVE  Dialogue'
    <2>1. k # NoKey /\ detail[k].view # <<>> /\ detail[k].error = FALSE
      BY <1>2, NoKeyAssumption DEF mounted, Details
    <2>2. content(k).orphaned \in BOOLEAN
      <3>1. detail[k].view \in Seq(Contents)
        BY DEF Details
      <3>2. detail[k].view[1] \in Contents
        <4> DEFINE s == detail[k].view
        <4>1. s \in Seq(Contents) /\ s # <<>>
          BY <2>1, <3>1
        <4> HIDE DEF s
        <4>2. Len(s) \in Nat \ {0}
          BY <4>1, EmptySeq
        <4>3. s[1] \in Contents
          BY <4>1, <4>2, ElementOfSeq
        <4> QED
          BY <4>3 DEF s
      <3> QED
        BY <3>2 DEF content, Contents
    <2>3. UNCHANGED <<page, detail>>
      BY <1>2 DEF runAction, removeFromList
    <2>4. \E d : open(d) /\ d \in AppDialogs /\ d.kind \in {"do", "remove"} /\ d.key = k
      <3>1. CASE removeFromList(k)
        <4>1. "all" \in Targets /\ "stop" \in Actions
          BY DEF Targets, Actions
        <4> DEFINE d == Dialog("remove", k, "all", "stop", TRUE)
        <4>2. d \in AppDialogs /\ d.kind = "remove" /\ d.key = k
          BY <4>1 DEF Dialog, AppDialogs
        <4>3. open(d)
          BY <3>1 DEF removeFromList
        <4> HIDE DEF d
        <4> QED
          BY <4>2, <4>3
      <3>2. CASE runAction(k)
        <4>1. PICK b \in Header(k) \union panelActions(k, "app", content(k).app)
                          \union panelActions(k, daprdTarget(k), content(k).daprd) :
                  open(Dialog("do", k, b[1], b[2], content(k).orphaned /\ b[2] = "stop"))
          BY <3>2 DEF runAction
        <4>2. ASSUME NEW target \in Targets, NEW shown, NEW c \in panelActions(k, target, shown)
              PROVE  c[1] \in Targets /\ c[2] \in Actions
          BY DEF panelActions
        <4>3. "app" \in Targets /\ "all" \in Targets /\ daprdTarget(k) \in Targets
          BY DEF Targets, Halves, daprdTarget
        <4>4. Header(k) \subseteq panelActions(k, "all", "running") \union panelActions(k, "all", "stopped")
          BY DEF Header
        <4>5. b[1] \in Targets /\ b[2] \in Actions
          BY <4>1, <4>2, <4>3, <4>4
        <4> DEFINE leaves == content(k).orphaned /\ b[2] = "stop"
                   d == Dialog("do", k, b[1], b[2], leaves)
        <4>6. leaves \in BOOLEAN
          BY <2>2
        <4>7. open(d)
          BY <4>1
        <4> HIDE DEF leaves
        <4>8. d \in AppDialogs /\ d.kind = "do" /\ d.key = k
          BY <1>2, <4>5, <4>6 DEF Dialog, AppDialogs
        <4> HIDE DEF d
        <4> QED
          BY <4>7, <4>8
      <3> QED
        BY <1>2, <3>1, <3>2
    <2>5. PICK d : open(d) /\ d \in AppDialogs /\ d.kind \in {"do", "remove"} /\ d.key = k
      BY <2>4
    <2>6. Belongs(d, page)
      BY <1>2, <2>1, <2>5 DEF Belongs
    <2> QED
      BY <2>3, <2>5, <2>6, DialogueOpens
  <1> QED
    BY <1>1, <1>2 DEF AppDetail, AppDetailContent

\* What an answer leaves of a dialog.
LEMMA DialogueAnswered ==
    ASSUME Details, Dialogue, Network
    PROVE  Dialogue'
  <1>s. CASE UNCHANGED <<page, dialog, detail>>
    BY <1>s DEF Dialogue, Belongs
  <1>l. ASSUME UNCHANGED detail,
               \/ page' = NoKey /\ dialog' = <<>>
               \/ UNCHANGED page /\ dialog' \in {<<>>, dialog}
        PROVE  Dialogue'
    BY <1>s, <1>l, NoDialogue DEF Dialogue
  <1>1. ASSUME NEW s, AnswerList(s)
        PROVE  Dialogue'
    BY <1>s, <1>l, <1>1 DEF AnswerList
  <1>2. ASSUME NEW s, LoseList(s)
        PROVE  Dialogue'
    BY <1>l, <1>2 DEF LoseList
  <1>3. ASSUME NEW k \in Keys, useAppDetail(k)
        PROVE  Dialogue'
    <2>1. PICK mute :
            /\ detail' = [detail EXCEPT ![k] =
                    IF Get(k, mute) = <<>> THEN [@ EXCEPT !.error = TRUE]
                    ELSE [error |-> FALSE,
                          view |-> <<[app |-> Get(k, mute)[1].app, daprd |-> Get(k, mute)[1].daprd,
                                      orphaned |-> Get(k, mute)[1].orphaned]>>]]
            /\ page' = IF leaving("detail") THEN NoKey ELSE page
            /\ dialog' = IF leaving("detail") \/ Get(k, mute) = <<>> THEN <<>> ELSE dialog
      BY <1>3 DEF useAppDetail
    <2>2. page = k /\ k # NoKey
      BY <1>3, NoKeyAssumption DEF useAppDetail
    <2>3. CASE dialog' = <<>>
      BY <2>1, <2>3, NoDialogue DEF Dialogue
    <2>4. CASE Get(k, mute) # <<>> /\ dialog' = dialog /\ page' = page
      <3>1. detail'[k].view # <<>> /\ detail'[k].error = FALSE
        <4> DEFINE c == [app |-> Get(k, mute)[1].app, daprd |-> Get(k, mute)[1].daprd,
                         orphaned |-> Get(k, mute)[1].orphaned]
        <4>1. detail'[k] = [error |-> FALSE, view |-> <<c>>]
          BY <2>1, <2>4 DEF Details
        <4> HIDE DEF c
        <4> QED
          BY <4>1
      <3>2. \A d : Belongs(d, page) => Belongs(d, page)'
        BY <2>2, <2>4, <3>1 DEF Belongs
      <3> QED
        BY <2>4, <3>2 DEF Dialogue
    <2> QED
      BY <2>1, <2>3, <2>4
  <1>4. ASSUME NEW o, AnswerRequest(o)
        PROVE  Dialogue'
    BY <1>s, <1>4 DEF AnswerRequest, client
  <1>5. CASE useApps
    BY <1>s, <1>5 DEF useApps, client
  <1> QED
    BY <1>1, <1>2, <1>3, <1>4, <1>5 DEF Network

\* Dialogs through a step.
LEMMA DialogueStays ==
    ASSUME AppsInv, Details, Dialogue, AppsNext
    PROVE  Dialogue'
  <1>1. CASE User
    <2>1. CASE Applications
      <3>1. UNCHANGED detail
        BY <2>1 DEF Applications, onOpen, confirmRemove, confirmClear
      <3> QED
        BY <2>1, <3>1, ListDialogues
    <2>2. CASE onConfirm \/ onCancel
      BY <2>2, NoDialogue DEF onConfirm, onCancel, Dialogue
    <2> QED
      BY <1>1, <2>1, <2>2, DetailDialogues DEF User
  <1>2. CASE Server
    BY <1>2 DEF Server, client, Dialogue, Belongs
  <1> QED
    BY <1>1, <1>2, DialogueAnswered DEF AppsNext

-----------------------------------------------------------------------------
(* The types hold, and in a session of all pages *)

LEMMA AppsTypedInit ==
    ASSUME AppsInit
    PROVE  AppsTyped
  <1>1. /\ world = [k \in Keys |-> IF k \in Runs THEN [t \in Targets |-> 1]
                                   ELSE [t \in Targets |-> IF t = "all" THEN 0 ELSE 1]]
        /\ starts = [k \in Keys |-> IF k \in Runs THEN 1 ELSE 0]
        /\ entries = <<>> /\ suppressed = {} /\ scans = {} /\ ops = {}
        /\ page = NoKey /\ dialog = <<>> /\ detail = [k \in Keys |-> [view |-> <<>>, error |-> FALSE]]
    BY DEF AppsInit, InitServer
  <1>2. Counted
    <2>1. \A k \in Runs : starts[k] = 1
      BY <1>1 DEF Keys
    <2>2. \A k \in Composes, t \in Targets : world[k][t] \in {0, 1}
      BY <1>1, AppsAssumption DEF Keys
    <2> QED
      BY <2>1, <2>2, AppsAssumption DEF Counted
  <1>3. Details
    <2>1. [view |-> <<>>, error |-> FALSE] \in [view : Seq(Contents), error : BOOLEAN]
      OBVIOUS
    <2> QED
      BY <1>1, <2>1 DEF Details
  <1> QED
    BY <1>1, <1>2, <1>3, Nobody DEF AppsTyped, Snapshots, Listings, Asking, Dialogue

LEMMA AppsTypedStep ==
    ASSUME AppsInv, AppsTyped, [AppsNext]_appVars
    PROVE  AppsTyped'
  <1>1. CASE UNCHANGED appVars
    BY <1>1 DEF appVars, client, AppsTyped, Counted, Snapshots, Remembers, Listings, Awaits, Asking, Asks,
                Details, Dialogue, Belongs
  <1>2. CASE AppsNext
    <2>1. Asking'
      BY <1>2, NetworkAsks, UserAsks, ServerAsks DEF AppsNext, AppsTyped
    <2> QED
      BY <1>2, <2>1, CountedStays, SnapshotsStay, SuppressedStay, ListingsStay, DetailsStay, DialogueStays
         DEF AppsTyped
  <1> QED
    BY <1>1, <1>2

\* At most one element.
LEMMA OneAtMost ==
    ASSUME NEW S, \A s, r \in S : s = r
    PROVE  Cardinality(S) <= 1
  <1>1. CASE S = {}
    BY <1>1, FS_EmptySet
  <1>2. CASE S # {}
    <2>1. PICK s : S = {s}
      BY <1>2
    <2>2. Cardinality({s}) = 1
      BY FS_Singleton
    <2> QED
      BY <2>1, <2>2
  <1> QED
    BY <1>1, <1>2

LEMMA AppsTypesFollow ==
    ASSUME AppsInv, AppsTyped
    PROVE  AppsTypeOK
  <1>1. \A k \in Keys, t \in Targets : world[k][t] \in 0..MaxPid
    <2>1. \A k \in Runs, t \in Targets : world[k][t] \in {0, starts[k]} /\ starts[k] \in 1..MaxPid
      BY DEF AppsInv, Processes, AppsTyped, Counted
    <2>2. \A k \in Composes, t \in Targets : world[k][t] \in {0, 1}
      BY DEF AppsTyped, Counted
    <2> QED
      BY <2>1, <2>2, AppsAssumption DEF Keys
  <1>2. DOMAIN entries \subseteq Runs
    BY DEF AppsInv, RunEntries
  <1>3. ASSUME NEW k \in DOMAIN entries
        PROVE  /\ DOMAIN snapshots(k) \subseteq Targets /\ snapshots(k) # <<>>
               /\ \A t \in DOMAIN snapshots(k) : snapshots(k)[t] \in 1..starts[k]
               /\ entries[k].instance.app \in Statuses
    <2>1. entries[k] \in Entry /\ Remembers(entries[k], starts[k]) /\ snapshots(k) = entries[k].procs
      BY DEF AppsInv, RunEntries, AppsTyped, Snapshots, snapshots
    <2>2. entries[k].instance.app \in Statuses /\ DOMAIN entries[k].procs \subseteq Targets
      BY <2>1 DEF Entry, Instance, Procs
    <2> QED
      BY <2>1, <2>2, Nobody DEF Remembers
  <1>4. \A s \in scans : DOMAIN s.views \subseteq Keys /\ s.by \in {"page", "clear"}
    BY DEF AppsInv, Scans, ScanShape, AppsTyped, Listings
  <1>5. Cardinality({s \in scans : s.by = "page" /\ s.live}) <= 1
    <2> DEFINE S == {s \in scans : s.by = "page" /\ s.live}
    <2>1. \A s, r \in S : s = r
      BY DEF AppsTyped, Listings, Awaits
    <2> HIDE DEF S
    <2>2. Cardinality(S) <= 1
      BY <2>1, OneAtMost
    <2> QED
      BY <2>2 DEF S
  <1>6. ASSUME NEW o \in ops
        PROVE  /\ o.status \in {"sent", "begun", "ok", "error", "answered"}
               /\ (o.status = "begun") = (o.todo # <<>>)
               /\ (o.status = "answered") = (o.waits # {})
               /\ o.mounted => page = o.key
    <2>1. Asks(o, page)
      BY DEF AppsTyped, Asking
    <2>2. o.status \in AppStatuses /\ o.mounted \in BOOLEAN
      BY <2>1 DEF Asks, AppRequests
    <2> QED
      BY <2>1, <2>2 DEF Asks, AppStatuses
  <1>7. ASSUME NEW i \in DOMAIN dialog
        PROVE  /\ i = 1
               /\ IF page = NoKey THEN dialog[i].kind \in {"row", "clear"}
                  ELSE dialog[i].kind \in {"do", "remove"} /\ mounted(page) /\ dialog[i].key = page
    <2>1. PICK d : dialog = <<d>> /\ Belongs(d, page)
      BY <1>7, Nobody DEF AppsTyped, Dialogue
    <2>2. i = 1 /\ dialog[i] = d
      BY <2>1
    <2> QED
      BY <2>1, <2>2 DEF Belongs, mounted
  <1>8. suppressed \subseteq Keys /\ page \in Keys \union {NoKey} /\ DOMAIN list.rows \subseteq Keys
    BY DEF AppsInv, ListShape, AppsTyped, Dialogue
  <1> QED
    BY <1>1, <1>2, <1>3, <1>4, <1>5, <1>6, <1>7, <1>8 DEF AppsTypeOK

\* Processes, registry, scans, requests and pages have their types; only one listing is
\* waited for; a request calls back, and a dialog opens, only over the page it belongs to.
THEOREM AppsTypeCorrect == AppsSpec => []AppsTypeOK
  <1>1. AppsInit => AppsInv /\ AppsTyped
    BY AppsInitInv, AppsTypedInit
  <1>2. AppsInv /\ AppsTyped /\ [AppsNext]_appVars => AppsInv' /\ AppsTyped'
    BY AppsStepInv, AppsTypedStep
  <1>3. AppsInv /\ AppsTyped => AppsTypeOK
    BY AppsTypesFollow
  <1> QED
    BY <1>1, <1>2, <1>3, PTL DEF AppsSpec

\* A session of one page is a session of each: the pages share no state, so that a step of
\* one is none of the others.
LEMMA SessionsApart ==
    PagesSpec => AppsSpec /\ LogsSpec /\ Spec
  <1>1. PagesInit => AppsInit /\ LogsInit /\ Init
    BY DEF PagesInit
  <1>2. [PagesNext]_pagesVars => [AppsNext]_appVars
    BY DEF PagesNext, pagesVars
  <1>3. [PagesNext]_pagesVars => [LogsNext]_logVars
    BY DEF PagesNext, pagesVars
  <1>4. [PagesNext]_pagesVars => [Next]_vars
    BY DEF PagesNext, pagesVars, Builder, Next
  <1> QED
    BY <1>1, <1>2, <1>3, <1>4, PTL DEF PagesSpec, AppsSpec, LogsSpec, Spec

\* The state of every page of a session has its type.
THEOREM PagesTypeCorrect == PagesSpec => []PagesTypeOK
  <1>1. AppsTypeOK /\ LogsTypeOK /\ TypeOK => PagesTypeOK
    BY DEF PagesTypeOK
  <1> QED
    BY <1>1, SessionsApart, AppsTypeCorrect, LogsTypeCorrect, TypeCorrect, PTL

=============================================================================
