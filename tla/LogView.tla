------------------------------ MODULE LogView ------------------------------
(***************************************************************************)
(* The Logs page: the target and source in the URL, one event stream per   *)
(* source in use, the merged view and its follow mode (pages/Logs.tsx,     *)
(* hooks/useLogStream.ts, hooks/useFollowScroll.ts), over the tails of the *)
(* log files (pkg/server/logs.go, pkg/logs/tail.go).                       *)
(*                                                                         *)
(* A log is written in halves of lines, so that a tail can start in the    *)
(* middle of one.  A line of a buffer is <<path, number, part>>.  A render *)
(* and the effects it runs are one step.                                   *)
(***************************************************************************)
EXTENDS Naturals, Sequences, FiniteSets, TLC

CONSTANTS Apps, Cps, NoTarget,
          CP_SERVICES,          \* the control-plane services offered before the list is read
          Logged,               \* the paths that have a log
          Stamp,                \* path |-> clock token of each line, 0 for none
          Level,                \* path |-> level of each line
          Written,              \* path |-> halves written at first
          Backfill, LINE_CAP,   \* lines sent on opening, lines kept
          MaxWrites             \* bound: steps of the user and of the world

Sources == {"daprd", "app"}
Slots == Sources \union {"cp"}
Levels == {"info", "error"}
Paths == (Apps \X Sources) \union (Cps \X {"cp"})
Idle == <<NoTarget, NoTarget>>

\* Tokens are read without their date, from anywhere in a line: they may go back.
ASSUME StampAssumption == Stamp \in [Paths -> Seq(Nat)]

ASSUME LogsAssumption ==
    /\ NoTarget \notin Apps \union Cps /\ CP_SERVICES \subseteq Cps /\ Logged \subseteq Paths
    /\ Written \in [Paths -> Nat] /\ \A p \in Paths : Written[p] <= 2 * Len(Stamp[p])
    /\ Backfill \in Nat /\ LINE_CAP \in Nat \ {0}

VARIABLES
    url,            \* the search parameters [app, cp, source]
    cpList,         \* whether the control plane's services have been read
    known,          \* apps whose details the page holds
    running,        \* apps the server finds
    log,            \* path |-> halves written
    slots,          \* slot |-> [path, lines, revision, status]
    conns,          \* open event sources [slot, path, state, cut, next]
    following,      \* follow mode
    at,             \* the viewport: at the "bottom", "away" from it, or "widened" under it
    levels,         \* the levels shown
    writes          \* steps taken

logVars == <<url, cpList, known, running, log, slots, conns, following, at, levels, writes>>
pageVars == <<url, cpList, known, slots, conns, following, at, levels>>

Count == writes < MaxWrites /\ writes' = writes + 1

-----------------------------------------------------------------------------
(* Tail                                                                    *)

lastLine(cut) == (cut + 1) \div 2
firstLine(cut) == IF lastLine(cut) > Backfill THEN lastLine(cut) - Backfill + 1 ELSE 1

\* What a tail opened at cut sends: the backfill, whose last line may be half of one, then
\* what is appended; the other half comes as a line of its own.
sent(path, cut, length) ==
    LET part(n) == IF cut % 2 = 1 /\ n = lastLine(cut) THEN "head" ELSE "whole"
        backfill == [i \in 1 .. (lastLine(cut) - firstLine(cut) + 1) |->
                        <<path, firstLine(cut) + i - 1, part(firstLine(cut) + i - 1)>>]
        rest == IF cut % 2 = 1 /\ length > cut THEN <<<<path, lastLine(cut), "rest">>>> ELSE <<>>
        new == [i \in 1 .. (length \div 2 - lastLine(cut)) |-> <<path, lastLine(cut) + i, "whole">>]
    IN  backfill \o rest \o (IF length \div 2 > lastLine(cut) THEN new ELSE <<>>)

parseLogTime(line) == IF line[3] = "rest" THEN 0 ELSE Stamp[line[1]][line[2]]

-----------------------------------------------------------------------------
(* What the page shows                                                     *)

cpNames == CP_SERVICES \union (IF cpList = "read" THEN Cps ELSE {})
cp == IF url.cp \in cpNames THEN url.cp ELSE NoTarget

uses(s) == url.source \in {"both", s}
canStream(k) == {s \in Sources : <<k, s>> \in Logged}
hasPath == \E s \in canStream(url.app) : uses(s)

\* LogViewerCore is mounted.
viewing == cp = NoTarget /\ url.app \in known /\ hasPath

pathOf(s) ==
    IF s = "cp" THEN (IF cp # NoTarget THEN <<cp, "cp">> ELSE Idle)
    ELSE IF viewing /\ uses(s) THEN <<url.app, s>> ELSE Idle

\* A line without a clock token sorted as if it had none before it either.
tagStream_Own(lines, src, base) ==
    [i \in DOMAIN lines |->
        [line |-> lines[i], src |-> src, arrival |-> base + 2 * i,
         sortTime |-> IF parseLogTime(lines[i]) = 0 THEN 1000 ELSE parseLogTime(lines[i])]]

latest(S) == CHOOSE j \in S : \A i \in S : i <= j

\* A line without one is kept with the line before it.
tagStream(lines, src, base) ==
    [i \in DOMAIN lines |->
        LET timed == {j \in 1 .. i : parseLogTime(lines[j]) # 0}
        IN  [line |-> lines[i], src |-> src, arrival |-> base + 2 * i,
             sortTime |-> IF timed = {} THEN 0 ELSE parseLogTime(lines[latest(timed)])]]

stream(s) == tagStream(slots[s].lines, s, IF s = "app" THEN 1 ELSE 0)

before(a, b) ==
    IF a.sortTime = b.sortTime THEN a.arrival < b.arrival ELSE a.sortTime < b.sortTime

\* How many of some entries are at or before one of them, and the entries in that order.
place(E, n) == Cardinality({m \in DOMAIN E : m = n \/ before(E[m], E[n])})
sorted(E) == [i \in DOMAIN E |-> E[CHOOSE n \in DOMAIN E : place(E, n) = i]]

capped(s) == IF Len(s) > LINE_CAP THEN SubSeq(s, Len(s) - LINE_CAP + 1, Len(s)) ELSE s

\* One source alone is shown as it came.
merged == IF url.source = "both" THEN capped(sorted(stream("daprd") \o stream("app")))
          ELSE stream(url.source)

view == IF cp # NoTarget THEN slots["cp"].lines ELSE [i \in DOMAIN merged |-> merged[i].line]

lineMatches(line, shown) == Level[line[1]][line[2]] \in shown
filtered(shown) == SelectSeq(view, LAMBDA line : lineMatches(line, shown))

\* The dot of the footer, worst first.
combineStatuses(S) ==
    CASE "closed" \in S -> "closed" [] "error" \in S -> "error"
      [] "connecting" \in S -> "connecting" [] "idle" \in S -> "idle" [] OTHER -> "open"

inUse == IF cp # NoTarget THEN {"cp"} ELSE {s \in Sources : uses(s)}
status == combineStatuses({slots[s].status : s \in inUse})
revision == IF cp # NoTarget THEN slots["cp"].revision
            ELSE slots["daprd"].revision + slots["app"].revision

-----------------------------------------------------------------------------
(* usePathLogStream                                                        *)

opened(s, path) == [slot |-> s, path |-> path, state |-> "connecting", cut |-> 0, next |-> 1]

\* The sources that survive a render: those whose path is the same.
kept == {c \in conns : pathOf(c.slot)' = slots[c.slot].path}

\* The effects of a render that may change paths.  A hook whose viewer is unmounted, or
\* mounted anew, starts over.
Render ==
    /\ slots' = [s \in Slots |->
          IF pathOf(s)' = slots[s].path THEN slots[s]
          ELSE [path |-> pathOf(s)', lines |-> <<>>,
                revision |-> IF (viewing /\ viewing' /\ s # "cp") \/ (s = "cp" /\ cp # NoTarget /\ cp' # NoTarget)
                             THEN slots[s].revision ELSE 0,
                status |-> IF pathOf(s)' = Idle THEN "idle" ELSE "connecting"]]
    /\ conns' = kept \union {opened(s, pathOf(s)') :
                    s \in {x \in Slots : pathOf(x)' \notin {Idle, slots[x].path}}}
    /\ at' = IF \A s \in Slots : slots'[s].lines = <<>> THEN "bottom" ELSE at

setStatus(s, x) == slots' = [slots EXCEPT ![s].status = x]

\* The server finds the app and its log and tails it, or answers an error, which ends the
\* stream for good.
Answer(c) ==
    /\ c.state = "connecting"
    /\ IF c.path \in Logged /\ (c.slot # "cp" => c.path[1] \in running)
       THEN /\ conns' = (conns \ {c}) \union
                  {[c EXCEPT !.state = "open", !.cut = log[c.path], !.next = 1]}
            /\ setStatus(c.slot, "open")
       ELSE conns' = conns \ {c} /\ setStatus(c.slot, "closed")
    /\ UNCHANGED <<url, cpList, known, running, log, following, at, levels, writes>>

onmessage(c) ==
    LET lines == sent(c.path, c.cut, log[c.path])
    IN  /\ c.state = "open" /\ c.next \in DOMAIN lines
        /\ conns' = (conns \ {c}) \union {[c EXCEPT !.next = @ + 1]}
        /\ slots' = [slots EXCEPT ![c.slot].lines = capped(Append(@, lines[c.next])),
                                  ![c.slot].revision = @ + 1]
        /\ UNCHANGED <<url, cpList, known, running, log, following, levels, writes>>
        /\ at' = IF following /\ revision' # revision THEN "bottom" ELSE "away"

\* The connection breaks; the browser opens it again.
onerror(c) ==
    /\ c.state = "open" /\ Count
    /\ conns' = (conns \ {c}) \union {opened(c.slot, c.path)}
    /\ setStatus(c.slot, "error")
    /\ UNCHANGED <<url, cpList, known, running, log, following, at, levels>>

-----------------------------------------------------------------------------
(* The page                                                                *)

onTargetChange(k, c) ==
    /\ <<k, c>> # <<url.app, url.cp>> /\ Count
    /\ url' = [url EXCEPT !.app = k, !.cp = c]
    /\ UNCHANGED <<cpList, known, running, log, following, levels>>
    /\ Render

\* One of the two sources stays on.
toggleSource(s) ==
    LET on == {x \in Sources : uses(x)}
        next == IF s \in on THEN on \ {s} ELSE on \union {s}
    IN  /\ cp = NoTarget /\ url.app # NoTarget /\ next # {} /\ Count
        /\ url' = [url EXCEPT !.source = IF next = Sources THEN "both" ELSE CHOOSE x \in next : TRUE]
        /\ UNCHANGED <<cpList, known, running, log, following, levels>>
        /\ Render

\* Shown again, lines push the bottom away until the next one arrives.
toggleLevel(l) ==
    /\ Count
    /\ levels' = IF l \in levels THEN levels \ {l} ELSE levels \union {l}
    /\ at' = IF at = "bottom" /\ Len(filtered(levels')) > Len(filtered(levels)) THEN "widened" ELSE at
    /\ UNCHANGED <<url, cpList, known, running, log, slots, conns, following>>

handleFollowToggle ==
    /\ Count /\ following' = ~following
    /\ at' = IF following' THEN "bottom" ELSE at
    /\ UNCHANGED <<url, cpList, known, running, log, slots, conns, levels>>

\* The user scrolls; away from the bottom this ends follow mode.
handleScroll(to) ==
    /\ view # <<>> /\ Count
    /\ at' = to
    /\ following' = (following /\ to = "bottom")
    /\ UNCHANGED <<url, cpList, known, running, log, slots, conns, levels>>

useApp(k) ==
    /\ url.app = k /\ k \in running \ known
    /\ known' = known \union {k}
    /\ UNCHANGED <<url, cpList, running, log, following, levels, writes>>
    /\ Render

useControlPlane ==
    /\ cpList # "read" /\ cpList' \in {"read", "error"}
    /\ UNCHANGED <<url, known, running, log, following, levels, writes>>
    /\ Render

-----------------------------------------------------------------------------
(* The world                                                               *)

Write(p) ==
    /\ log[p] < 2 * Len(Stamp[p]) /\ Count
    /\ log' = [log EXCEPT ![p] = @ + 1]
    /\ UNCHANGED <<pageVars, running>>

ComeAndGo(k) ==
    /\ Count
    /\ running' = IF k \in running THEN running \ {k} ELSE running \union {k}
    /\ UNCHANGED <<pageVars, log>>

-----------------------------------------------------------------------------

\* Any link may have been followed.
LogsInit ==
    /\ url \in [app : Apps \union {NoTarget}, cp : Cps \union {NoTarget}, source : Sources \union {"both"}]
    /\ cpList = "pending" /\ known = {} /\ running = Apps
    /\ log = Written
    /\ slots = [s \in Slots |-> [path |-> pathOf(s), lines |-> <<>>, revision |-> 0,
                                 status |-> IF pathOf(s) = Idle THEN "idle" ELSE "connecting"]]
    /\ conns = {opened(s, pathOf(s)) : s \in {x \in Slots : pathOf(x) # Idle}}
    /\ following = TRUE /\ at = "bottom" /\ levels = Levels /\ writes = 0

LogsNext ==
    \/ \E c \in conns : Answer(c) \/ onmessage(c) \/ onerror(c)
    \/ \E k \in running : onTargetChange(k, NoTarget)
    \/ \E c \in cpNames : onTargetChange(NoTarget, c)
    \/ onTargetChange(NoTarget, NoTarget)
    \/ \E s \in Sources : toggleSource(s)
    \/ \E l \in Levels : toggleLevel(l)
    \/ handleFollowToggle
    \/ \E to \in {"bottom", "away"} : handleScroll(to)
    \/ \E k \in Apps : useApp(k) \/ ComeAndGo(k)
    \/ useControlPlane
    \/ \E p \in Logged : Write(p)

LogsSpec == LogsInit /\ [][LogsNext]_logVars

-----------------------------------------------------------------------------
(* Properties                                                              *)

\* The page's state has its type; a path in use has its stream, and a buffer is bounded.
LogsTypeOK ==
    /\ url.app \in Apps \union {NoTarget} /\ url.cp \in Cps \union {NoTarget}
    /\ \A s \in Slots :
          /\ slots[s].path = pathOf(s)
          /\ (slots[s].status = "idle") = (slots[s].path = Idle)
          /\ Len(slots[s].lines) <= LINE_CAP
    /\ \A c \in conns : c.slot \in Slots /\ c.state \in {"connecting", "open"}
    /\ levels \subseteq Levels /\ at \in {"bottom", "away", "widened"}

\* A buffer holds lines of the log its slot shows and of no other, whatever was selected
\* before, and the dot says live only when every stream in use is connected to its log
\* (usePathLogStream's cleanup; combineStatuses).
BufferFollowsTarget ==
    /\ \A s \in Slots : \A i \in DOMAIN slots[s].lines : slots[s].lines[i][1] = slots[s].path
    /\ status = "open" => \A s \in inUse : \E c \in conns :
            c.slot = s /\ c.path = slots[s].path /\ c.state = "open"

\* No clock token of a stream's lines after i up to j is earlier than one up to i.
forward(s, i, j) ==
    LET clock(n) == parseLogTime(slots[s].lines[n])
    IN  \A a \in 1..i, b \in (i + 1)..j : clock(a) # 0 /\ clock(b) # 0 => clock(a) <= clock(b)

\* The view shows lines of the streams, none twice.  A line that is shown comes before every
\* later line of its stream, which is shown too: only the oldest are dropped, and what has
\* no clock token stays between its neighbours (tagStream, LINE_CAP).  Of two sources this
\* holds where the clock does not go back between the two lines: past midnight, at a token
\* out of a line's text or at a backfill sent again the view follows the clock instead.
MergeKeepsStreams ==
    LET shows(n, s, i) == n \in DOMAIN merged /\ i \in DOMAIN stream(s) /\ merged[n] = stream(s)[i]
    IN  /\ \A n \in DOMAIN merged : \E i \in 1..LINE_CAP : shows(n, merged[n].src, i)
        /\ \A m, n \in DOMAIN merged : merged[m] = merged[n] => m = n
        /\ \A s \in Sources : \A i, j \in DOMAIN stream(s) :
              i < j /\ (url.source = "both" => forward(s, i, j)) =>
                  \A m \in DOMAIN merged : shows(m, s, i) => \E n \in DOMAIN merged : m < n /\ shows(n, s, j)

\* In follow mode the viewport is at the bottom after every arrival, at the cap too, where
\* the number of lines no longer changes (useFollowScroll).
FollowPinned == following => at # "away"

ViewFaithful == BufferFollowsTarget /\ MergeKeepsStreams /\ FollowPinned

=============================================================================
